---- MODULE Spec2Model ----
(***************************************************************************)
(* Noise reduction effect (NoiseReduction.cpp): the Worker's streaming     *)
(* pipeline -- frame buffer, ring of spectrum records, classifier, gain    *)
(* builder, resynthesis --, the per-track driver ProcessOne, the track     *)
(* loop Worker::Process, the effect's Process with its two passes, and the *)
(* buttons of its dialog.                                                  *)
(*                                                                         *)
(* Representation choices                                                  *)
(*  - Samples are tags: input sample p of the track is the number p + 1,   *)
(*    0 is the float 0.0.  The buffer code only moves samples, so a tag    *)
(*    per position follows every sample through it.                        *)
(*  - The FFT primitive is external.  The power spectrum it yields for a   *)
(*    frame is an input drawn from track.shapes; the complex spectrum of a *)
(*    record is the number of the frame it was computed from (-1: the      *)
(*    zeroed spectrum StartNewTrack leaves).  The inverse transform of     *)
(*    frame f yields the time samples <<f, 0>> .. <<f, W-1>>, and the      *)
(*    overlap buffer holds, per sample, the sequence of terms added.       *)
(*  - Gains are held as logarithms, exactly: the unit is chosen so that    *)
(*    log(mOneBlockAttack), log(mOneBlockRelease), log(mNoiseAttenFactor)  *)
(*    and every mean ApplyFreqSmoothing takes are integers.  LogOne is     *)
(*    gain 1.0, LogZero is gain 0.0.  Floating-point rounding is not       *)
(*    modelled.                                                            *)
(*  - Times are in milliseconds, frequencies and the rate in Hz.           *)
(*  - The means of the statistics are exact fractions.                     *)
(*  - mStatistics is the pair (effect.hasStatistics, stats); a read        *)
(*    through the null pointer is a choice between a crash and an          *)
(*    indeterminate value.                                                 *)
(***************************************************************************)
EXTENDS Integers, Sequences, FiniteSets, TLC

VARIABLES
    settings,   \* EffectNoiseReduction::Settings of the run
    track,      \* the WaveTrack being processed: rate, selected length, block sizes
    stats,      \* EffectNoiseReduction::Statistics
    wk,         \* the Worker(s): noise reduction choice -> Worker state
    pc,         \* position in the dialog, Process, Worker::Process and ProcessOne
    samplePos,  \* ProcessOne's samplePos - start
    pending,    \* ProcessSamples' (buffer, len): the samples not yet consumed
    caller,     \* who called ProcessSamples: "feed" (ProcessOne) or "flush" (FinishTrack)
    effect      \* EffectNoiseReduction, its dialog, and what its Process call did

vars == <<settings, track, stats, wk, pc, samplePos, pending, caller, effect>>

(***************************************************************************)
(* Bounds of the model                                                     *)
(***************************************************************************)
MaxLen == 9          \* longest selected track length, in samples
MaxBlock == 3        \* largest block GetBestBlockSize offers in the fine-grained runs
GainLen == 12        \* track length of the gain runs, in samples
MaxPower == 3        \* greatest power of a band in the classifier runs
GainBlock == 4       \* block size of the gain runs

(***************************************************************************)
(* Enumerations and tables                                                 *)
(***************************************************************************)
DM_MEDIAN == "DM_MEDIAN"
DM_SECOND_GREATEST == "DM_SECOND_GREATEST"
DM_OLD_METHOD == "DM_OLD_METHOD"

NRC_REDUCE_NOISE == "NRC_REDUCE_NOISE"
NRC_ISOLATE_NOISE == "NRC_ISOLATE_NOISE"
NRC_LEAVE_RESIDUE == "NRC_LEAVE_RESIDUE"

WT_RECTANGULAR_HANN == 0
WT_HANN_RECTANGULAR == 1
WT_HANN_HANN == 2
WT_BLACKMAN_HANN == 3

\* windowTypesInfo[..].minSteps
minSteps == <<2, 2, 4, 4>>

\* minSignalTime = 0.05f, in milliseconds
minSignalTime == 50

\* log(10.0) in thousandths: mNewSensitivity = settings.mNewSensitivity * log(10.0)
Ln10Milli == 2303

Max(a, b) == IF a >= b THEN a ELSE b
Min(a, b) == IF a <= b THEN a ELSE b

RECURSIVE Pow2(_)
Pow2(n) == IF n = 0 THEN 1 ELSE 2 * Pow2(n - 1)

RECURSIVE Gcd(_, _)
Gcd(a, b) == IF b = 0 THEN a ELSE Gcd(b, a % b)

RECURSIVE LcmUpTo(_)
LcmUpTo(n) == IF n <= 1 THEN 1 ELSE (LcmUpTo(n - 1) * n) \div Gcd(LcmUpTo(n - 1), n)

(***************************************************************************)
(* Settings                                                                *)
(***************************************************************************)
WindowSize(s) == Pow2(3 + s.mWindowSizeChoice)
StepsPerWindow(s) == Pow2(1 + s.mStepsPerWindowChoice)

\* variant: steps per window are not compared with the window size
ValidateStepsAndMethod(s) ==
    /\ ~(StepsPerWindow(s) < minSteps[s.mWindowTypes + 1])
    /\ ~(s.mMethod = DM_MEDIAN /\ StepsPerWindow(s) > 4)

\* variant: the method is not compared with the steps per window
ValidateStepsOnly(s) ==
    /\ ~(StepsPerWindow(s) < minSteps[s.mWindowTypes + 1])
    /\ ~(StepsPerWindow(s) > WindowSize(s))

Validate(s) ==
    /\ ~(StepsPerWindow(s) < minSteps[s.mWindowTypes + 1])
    /\ ~(StepsPerWindow(s) > WindowSize(s))
    /\ ~(s.mMethod = DM_MEDIAN /\ StepsPerWindow(s) > 4)

(***************************************************************************)
(* Gains as exact logarithms                                               *)
(***************************************************************************)
LogOne == 0
LogZero == 0 - 1000000000

\* the product gain * factor of two floats, factor > 0
GainTimes(g, f) == IF g = LogZero THEN LogZero ELSE g + f

\* Every window ApplyFreqSmoothing averages over holds 1 .. spectrumSize gains.
SmoothDenom(spectrumSize) == LcmUpTo(spectrumSize)

(***************************************************************************)
(* Worker::Worker: the quantities fixed at construction                    *)
(***************************************************************************)
NAttackBlocks(s, sampleRate) ==
    1 + (s.mAttackTime * sampleRate) \div (1000 * (WindowSize(s) \div StepsPerWindow(s)))

NReleaseBlocks(s, sampleRate) ==
    1 + (s.mReleaseTime * sampleRate) \div (1000 * (WindowSize(s) \div StepsPerWindow(s)))

NWindowsToExamine(s, sampleRate) ==
    IF s.mMethod = DM_OLD_METHOD
    THEN Max(2, (minSignalTime * sampleRate)
                   \div (1000 * (WindowSize(s) \div StepsPerWindow(s))))
    ELSE 1 + StepsPerWindow(s)

\* variant: the queue is sized for the attack alone
HistoryLenForAttack(s, sampleRate) ==
    IF s.mDoProfile
    THEN NWindowsToExamine(s, sampleRate)
    ELSE NWindowsToExamine(s, sampleRate) \div 2 + NAttackBlocks(s, sampleRate)

HistoryLen(s, sampleRate) ==
    IF s.mDoProfile
    THEN NWindowsToExamine(s, sampleRate)
    ELSE Max(NWindowsToExamine(s, sampleRate),
             NWindowsToExamine(s, sampleRate) \div 2 + NAttackBlocks(s, sampleRate))

\* 10^(mSensitivity / 10) as a fraction, for mSensitivity a multiple of 10 dB
SensitivityFactor(s) ==
    IF s.mSensitivity >= 0
    THEN [num |-> IF s.mSensitivity = 0 THEN 1 ELSE 10, den |-> 1]
    ELSE [num |-> 1, den |-> 10]

WorkerConsts(s, sampleRate, f0, f1) ==
    LET W  == WindowSize(s)
        SS == 1 + W \div 2
        nA == NAttackBlocks(s, sampleRate)
        nR == NReleaseBlocks(s, sampleRate)
        D  == SmoothDenom(SS)
        on == IF s.mNoiseGain = 0 THEN 0 ELSE 1
    IN  [ mDoProfile            |-> s.mDoProfile,
          mSampleRate           |-> sampleRate,
          mWindowSize           |-> W,
          mSpectrumSize         |-> SS,
          mFreqSmoothingBins    |-> (s.mFreqSmoothingHz * W) \div sampleRate,
          mBinLow               |-> IF f0 >= 0 THEN (f0 * W) \div sampleRate ELSE 0,
          mBinHigh              |-> IF f1 >= 0
                                    THEN (f1 * W + sampleRate - 1) \div sampleRate
                                    ELSE SS,
          mNoiseReductionChoice |-> s.mNoiseReductionChoice,
          mStepsPerWindow       |-> StepsPerWindow(s),
          mStepSize             |-> W \div StepsPerWindow(s),
          mMethod               |-> s.mMethod,
          mNewSensitivity       |-> s.mNewSensitivity * Ln10Milli,
          nAttackBlocks         |-> nA,
          nReleaseBlocks        |-> nR,
          mNoiseAttenFactor     |-> 0 - on * nA * nR * D,
          mOneBlockAttack       |-> 0 - on * nR * D,
          mOneBlockRelease      |-> 0 - on * nA * D,
          mSensitivityFactor    |-> SensitivityFactor(s),
          mNWindowsToExamine    |-> NWindowsToExamine(s, sampleRate),
          mCenter               |-> NWindowsToExamine(s, sampleRate) \div 2,
          mHistoryLen           |-> HistoryLen(s, sampleRate) ]

Bands(c) == 0 .. c.mSpectrumSize - 1

\* Record(spectrumSize): value-initialised vectors.  id names the allocation
\* (mQueue[ii] = new Record), mFFT the frame whose transform the record holds,
\* gainsFFT the frame the record held when all its gains were last written.
NewRecord(c, ii) ==
    [ mSpectrums |-> [b \in Bands(c) |-> 0],
      mGains     |-> [b \in Bands(c) |-> LogZero],
      mFFT       |-> 0 - 1,
      gainsFFT   |-> 0 - 1,
      id         |-> ii ]

\* The Worker after its constructor.  mQueue[i + 1] is the source's mQueue[i].
Worker(s, sampleRate, f0, f1) ==
    LET c == WorkerConsts(s, sampleRate, f0, f1)
    IN  [ c                 |-> c,
          mQueue            |-> [i \in 1 .. c.mHistoryLen |-> NewRecord(c, i - 1)],
          mInWaveBuffer     |-> [i \in 1 .. c.mWindowSize |-> 0],
          mOutOverlapBuffer |-> [i \in 1 .. c.mWindowSize |-> << >>],
          mInSampleCount    |-> 0,
          mOutStepCount     |-> 0,
          mInWavePos        |-> 0,
          outputTrack       |-> << >>,     \* the samples Append()ed to the sink
          frames            |-> << >>,     \* history: the windows handed to analysis
          applied           |-> << >>,     \* history: the frames resynthesized
          phases            |-> << >>,     \* history: ring gains inside the last ReduceNoise
          ring              |-> << >> ]    \* history: the ring as the last analysis found it

(***************************************************************************)
(* Worker::StartNewTrack                                                   *)
(***************************************************************************)
\* variant: the padded windows counted once too often
InitialOutStepCountShort(c) == 0 - (c.mHistoryLen - 1) - c.mStepsPerWindow

\* mOutStepCount = - (mHistoryLen - 1) - (mStepsPerWindow - 1)
InitialOutStepCount(c) == 0 - (c.mHistoryLen - 1) - (c.mStepsPerWindow - 1)

\* variant: the ring keeps the powers, gains and transforms of the track before
StartNewTrackKeepsRing(w) ==
    LET c == w.c
    IN  [ w EXCEPT
          !.mOutOverlapBuffer = [i \in 1 .. c.mWindowSize |-> << >>],
          !.mInWaveBuffer = [i \in 1 .. c.mWindowSize |-> 0],
          !.mInWavePos = c.mWindowSize - c.mStepSize,
          !.mInSampleCount = 0,
          !.mOutStepCount = 0 - (c.mHistoryLen - 1) - (c.mStepsPerWindow - 1),
          !.outputTrack = << >>,
          !.frames = << >>,
          !.applied = << >>,
          !.phases = << >>,
          !.ring = << >> ]

StartNewTrack(w) ==
    LET c == w.c
    IN  [ w EXCEPT
          !.mQueue = [i \in 1 .. c.mHistoryLen |->
                        [ mSpectrums |-> [b \in Bands(c) |-> 0],
                          mGains     |-> [b \in Bands(c) |-> c.mNoiseAttenFactor],
                          mFFT       |-> 0 - 1,
                          gainsFFT   |-> 0 - 1,
                          id         |-> w.mQueue[i].id ]],
          !.mOutOverlapBuffer = [i \in 1 .. c.mWindowSize |-> << >>],
          !.mInWaveBuffer = [i \in 1 .. c.mWindowSize |-> 0],
          !.mInWavePos = c.mWindowSize - c.mStepSize,
          !.mInSampleCount = 0,
          !.mOutStepCount = InitialOutStepCount(c),
          !.outputTrack = << >>,
          !.frames = << >>,
          !.applied = << >>,
          !.phases = << >>,
          !.ring = << >> ]

(***************************************************************************)
(* Worker::Classify                                                        *)
(***************************************************************************)
\* mQueue[ii]->mSpectrums[band], ii counted from 0 as in the source
Power(q, ii, band) == q[ii + 1].mSpectrums[band]

RECURSIVE MinPower(_, _, _, _, _)
MinPower(q, band, ii, n, min) ==
    IF ii >= n THEN min
    ELSE MinPower(q, band, ii + 1, n, Min(min, Power(q, ii, band)))

\* variant: a new greatest power does not hand the old one down
RECURSIVE TopTwoForgetful(_, _, _, _, _)
TopTwoForgetful(q, band, ii, n, gs) ==
    IF ii >= n THEN gs
    ELSE LET power == q[ii + 1].mSpectrums[band]
         IN  TopTwoForgetful(q, band, ii + 1, n,
                             IF power >= gs[1] THEN <<power, gs[2]>>
                             ELSE IF power >= gs[2] THEN <<gs[1], power>>
                             ELSE gs)

\* the loop of the second-greatest method: <<greatest, second>>
RECURSIVE TopTwo(_, _, _, _, _)
TopTwo(q, band, ii, n, gs) ==
    IF ii >= n THEN gs
    ELSE LET power == Power(q, ii, band)
         IN  TopTwo(q, band, ii + 1, n,
                    IF power >= gs[1] THEN <<power, gs[1]>>
                    ELSE IF power >= gs[2] THEN <<gs[1], power>>
                    ELSE gs)

\* the loop of the median-of-five method: <<greatest, second, third>>
RECURSIVE TopThree(_, _, _, _, _)
TopThree(q, band, ii, n, gst) ==
    IF ii >= n THEN gst
    ELSE LET power == Power(q, ii, band)
         IN  TopThree(q, band, ii + 1, n,
                      IF power >= gst[1] THEN <<power, gst[1], gst[2]>>
                      ELSE IF power >= gst[2] THEN <<gst[1], power, gst[2]>>
                      ELSE IF power >= gst[3] THEN <<gst[1], gst[2], power>>
                      ELSE gst)

\* variant: the comparison the other way round
AboveThreshold(c, st, value, band) ==
    value * 1000 * st.mMeans[band].den >= c.mNewSensitivity * st.mMeans[band].num

\* value <= mNewSensitivity * statistics.mMeans[band], the mean a fraction and
\* mNewSensitivity in thousandths
BelowThreshold(c, st, value, band) ==
    value * 1000 * st.mMeans[band].den <= c.mNewSensitivity * st.mMeans[band].num

SecondGreatest(c, st, q, band) ==
    BelowThreshold(c, st, TopTwo(q, band, 0, c.mNWindowsToExamine, <<0, 0>>)[2], band)

\* variant: every band is noise
ClassifyAllNoise(c, st, q, band) == TRUE

Classify(c, st, q, band) ==
    CASE c.mMethod = DM_OLD_METHOD ->
            MinPower(q, band, 1, c.mNWindowsToExamine, Power(q, 0, band))
                * c.mSensitivityFactor.den
              <= c.mSensitivityFactor.num * st.mNoiseThreshold[band]
      [] c.mMethod = DM_MEDIAN ->
            IF c.mNWindowsToExamine = 3 THEN SecondGreatest(c, st, q, band)
            ELSE IF c.mNWindowsToExamine = 5
            THEN BelowThreshold(c, st,
                    TopThree(q, band, 0, c.mNWindowsToExamine, <<0, 0, 0>>)[3], band)
            ELSE TRUE
      [] c.mMethod = DM_SECOND_GREATEST -> SecondGreatest(c, st, q, band)
      [] OTHER -> TRUE

(***************************************************************************)
(* Worker::FillFirstHistoryWindow, RotateHistoryWindows, GatherStatistics  *)
(***************************************************************************)
\* shape: the power spectrum the forward FFT yields for this window
FillFirstHistoryWindow(w, shape) ==
    LET c == w.c
        r == w.mQueue[1]
    IN  [ w EXCEPT
          !.frames = Append(w.frames, w.mInWaveBuffer),
          !.mQueue[1] =
              [ mFFT       |-> Len(w.frames),
                mSpectrums |-> shape,
                mGains     |-> IF c.mNoiseReductionChoice # NRC_ISOLATE_NOISE
                               THEN [b \in Bands(c) |-> c.mNoiseAttenFactor]
                               ELSE r.mGains,
                gainsFFT   |-> IF c.mNoiseReductionChoice # NRC_ISOLATE_NOISE
                               THEN Len(w.frames)
                               ELSE r.gainsFFT,
                id         |-> r.id ],
          !.ring = [i \in DOMAIN w.mQueue |->
                      [ mFFT |-> IF i = 1 THEN Len(w.frames) ELSE w.mQueue[i].mFFT,
                        id   |-> w.mQueue[i].id ]] ]

\* variant: the ring is left as it is
RotateHistoryWindowsNot(w) == w

RotateHistoryWindows(w) ==
    LET H == w.c.mHistoryLen
    IN  [ w EXCEPT !.mQueue = [i \in 1 .. H |-> IF i = 1 THEN w.mQueue[H]
                                                ELSE w.mQueue[i - 1]] ]

GatherStatistics(st, w) ==
    LET c == w.c
    IN  [ st EXCEPT
          !.mTrackWindows = st.mTrackWindows + 1,
          !.mSums = [b \in Bands(c) |-> st.mSums[b] + Power(w.mQueue, 0, b)],
          !.mNoiseThreshold =
              [b \in Bands(c) |->
                 Max(st.mNoiseThreshold[b],
                     MinPower(w.mQueue, b, 1, c.mHistoryLen, Power(w.mQueue, 0, b)))] ]

(***************************************************************************)
(* Worker::ApplyFreqSmoothing                                              *)
(***************************************************************************)
RECURSIVE SumGains(_, _, _)
SumGains(gains, j0, j1) ==
    IF j0 > j1 THEN 0 ELSE gains[j0] + SumGains(gains, j0 + 1, j1)

\* variant: the logs are summed and not divided
ApplyFreqSmoothingProduct(c, gains) ==
    IF c.mFreqSmoothingBins = 0 THEN gains
    ELSE [ii \in Bands(c) |->
            LET j0 == Max(0, ii - c.mFreqSmoothingBins)
                j1 == Min(c.mSpectrumSize - 1, ii + c.mFreqSmoothingBins)
            IN  IF \E jj \in j0 .. j1 : gains[jj] = LogZero
                THEN LogZero
                ELSE SumGains(gains, j0, j1)]

\* variant: the mean is always over 2 * mFreqSmoothingBins + 1 bands
ApplyFreqSmoothingUnclamped(c, gains) ==
    IF c.mFreqSmoothingBins = 0 THEN gains
    ELSE [ii \in Bands(c) |->
            LET j0 == Max(0, ii - c.mFreqSmoothingBins)
                j1 == Min(c.mSpectrumSize - 1, ii + c.mFreqSmoothingBins)
            IN  IF \E jj \in j0 .. j1 : gains[jj] = LogZero
                THEN LogZero
                ELSE SumGains(gains, j0, j1) \div (2 * c.mFreqSmoothingBins + 1)]

ApplyFreqSmoothing(c, gains) ==
    IF c.mFreqSmoothingBins = 0 THEN gains
    ELSE [ii \in Bands(c) |->
            LET j0 == Max(0, ii - c.mFreqSmoothingBins)
                j1 == Min(c.mSpectrumSize - 1, ii + c.mFreqSmoothingBins)
            IN  IF \E jj \in j0 .. j1 : gains[jj] = LogZero
                THEN LogZero
                ELSE SumGains(gains, j0, j1) \div (j1 - j0 + 1)]

(***************************************************************************)
(* Worker::ReduceNoise                                                     *)
(***************************************************************************)
\* variant: isolating keeps the old gain of a band that is not noise
CenterGainKeepsOld(c, old, inRange, isNoise) ==
    IF c.mNoiseReductionChoice = NRC_ISOLATE_NOISE
    THEN IF ~inRange THEN LogZero ELSE IF isNoise THEN LogOne ELSE old
    ELSE IF ~inRange THEN LogOne ELSE IF ~isNoise THEN LogOne ELSE old

\* variant: the frequency range is ignored
CenterGainIgnoresRange(c, old, inRange, isNoise) ==
    IF c.mNoiseReductionChoice = NRC_ISOLATE_NOISE
    THEN IF isNoise THEN LogOne ELSE LogZero
    ELSE IF ~isNoise THEN LogOne ELSE old

\* variant: reducing never raises a band to 1 inside the frequency range
CenterGainRangeOnly(c, old, inRange, isNoise) ==
    IF c.mNoiseReductionChoice = NRC_ISOLATE_NOISE
    THEN IF ~inRange THEN LogZero ELSE IF isNoise THEN LogOne ELSE LogZero
    ELSE IF ~inRange THEN LogOne ELSE old

\* step 1, one band of the center record: old is the gain it holds
\* variant: a noise band is put back to the attenuation floor
CenterGainFloor(c, old, inRange, isNoise) ==
    IF c.mNoiseReductionChoice = NRC_ISOLATE_NOISE
    THEN IF ~inRange THEN LogZero ELSE IF isNoise THEN LogOne ELSE LogZero
    ELSE IF ~inRange THEN LogOne ELSE IF ~isNoise THEN LogOne ELSE c.mNoiseAttenFactor

CenterGain(c, old, inRange, isNoise) ==
    IF c.mNoiseReductionChoice = NRC_ISOLATE_NOISE
    THEN IF ~inRange THEN LogZero ELSE IF isNoise THEN LogOne ELSE LogZero
    ELSE IF ~inRange THEN LogOne ELSE IF ~isNoise THEN LogOne ELSE old

\* step 1: the gains of the center record
CenterGains(c, st, q) ==
    [jj \in Bands(c) |->
        CenterGain(c, q[c.mCenter + 1].mGains[jj],
                   ~(jj < c.mBinLow \/ jj >= c.mBinHigh),
                   Classify(c, st, q, jj))]

\* variant: the attack reaches one window only
AttackBandOnce(c, q, jj, ii) ==
    IF ii >= c.mHistoryLen THEN q
    ELSE LET minimum == Max(c.mNoiseAttenFactor,
                            GainTimes(q[ii].mGains[jj], c.mOneBlockAttack))
         IN  IF q[ii + 1].mGains[jj] < minimum
             THEN [q EXCEPT ![ii + 1].mGains[jj] = minimum]
             ELSE q

\* variant: no slot is raised
AttackBandNone(c, q, jj, ii) == q

\* the attack loop of one band, from queue index ii on
RECURSIVE AttackBand(_, _, _, _)
AttackBand(c, q, jj, ii) ==
    IF ii >= c.mHistoryLen THEN q
    ELSE LET minimum == Max(c.mNoiseAttenFactor,
                            GainTimes(q[ii].mGains[jj], c.mOneBlockAttack))
         IN  IF q[ii + 1].mGains[jj] < minimum
             THEN AttackBand(c, [q EXCEPT ![ii + 1].mGains[jj] = minimum], jj, ii + 1)
             ELSE q

RECURSIVE Attack(_, _, _)
Attack(c, q, jj) ==
    IF jj >= c.mSpectrumSize THEN q
    ELSE Attack(c, AttackBand(c, q, jj, c.mCenter + 1), jj + 1)

\* variant: no release
ReleaseNone(c, q) == q

\* the release: one window forward, mQueue[mCenter - 1]
Release(c, q) ==
    [ q EXCEPT ![c.mCenter].mGains =
        [b \in Bands(c) |->
           Max(q[c.mCenter].mGains[b],
               Max(c.mNoiseAttenFactor,
                   GainTimes(q[c.mCenter + 1].mGains[b], c.mOneBlockRelease)))] ]

\* variant: the residue is not inverted
MultiplierPlain(c, gain) == [lg |-> gain, off |-> 0]

\* The factor a spectral component is multiplied by: exp(lg) + off.
Multiplier(c, gain) ==
    IF c.mNoiseReductionChoice = NRC_LEAVE_RESIDUE
    THEN [lg |-> gain, off |-> 0 - 1]
    ELSE [lg |-> gain, off |-> 0]

GainsOf(q) == [i \in DOMAIN q |-> q[i].mGains]

\* if (mOutStepCount >= 0): the first mStepSize samples go to the output track
EmitGate(w) == w.mOutStepCount >= 0

\* the part of ReduceNoise under  if (mOutStepCount >= -(mStepsPerWindow - 1))
Resynthesize(w) ==
    LET c      == w.c
        W      == c.mWindowSize
        H      == c.mHistoryLen
        record == w.mQueue[H]
        gains  == IF c.mNoiseReductionChoice # NRC_ISOLATE_NOISE
                  THEN ApplyFreqSmoothing(c, record.mGains)
                  ELSE record.mGains
        added  == [i \in 1 .. W |->
                     Append(w.mOutOverlapBuffer[i], <<record.mFFT, i - 1>>)]
        emit   == EmitGate(w)
    IN  [ w EXCEPT
          !.mQueue[H].mGains = gains,
          !.outputTrack = IF emit
                          THEN w.outputTrack \o [i \in 1 .. c.mStepSize |-> added[i]]
                          ELSE w.outputTrack,
          !.mOutOverlapBuffer = [i \in 1 .. W |->
                                   IF i <= W - c.mStepSize THEN added[i + c.mStepSize]
                                   ELSE << >>],
          !.applied = Append(w.applied,
                             [ frame   |-> record.mFFT,
                               gainsFFT |-> record.gainsFFT,
                               step    |-> w.mOutStepCount,
                               pre     |-> record.mGains,
                               gains   |-> gains,
                               mult    |-> [b \in Bands(c) |-> Multiplier(c, gains[b])],
                               emitted |-> emit ]) ]

\* variant: resynthesis from the first frame on
ResynthGateAlways(w) == TRUE

\* variant: resynthesis starts only with the first emitted block
ResynthGateLate(w) == w.mOutStepCount >= 0

\* if (mOutStepCount >= -(mStepsPerWindow - 1))
\* variant: the gate opens one step early
ResynthGateEarly(w) == w.mOutStepCount >= 0 - w.c.mStepsPerWindow

ResynthGate(w) == w.mOutStepCount >= 0 - (w.c.mStepsPerWindow - 1)

ReduceNoise(w, st) ==
    LET c  == w.c
        q1 == [w.mQueue EXCEPT
                 ![c.mCenter + 1].mGains = CenterGains(c, st, w.mQueue),
                 ![c.mCenter + 1].gainsFFT =
                     IF c.mNoiseReductionChoice = NRC_ISOLATE_NOISE
                     THEN w.mQueue[c.mCenter + 1].mFFT ELSE @]
        q2 == IF c.mNoiseReductionChoice # NRC_ISOLATE_NOISE THEN Attack(c, q1, 0) ELSE q1
        q3 == IF c.mNoiseReductionChoice # NRC_ISOLATE_NOISE THEN Release(c, q2) ELSE q2
        w3 == [ w EXCEPT !.mQueue = q3,
                         !.phases = [ powers  |-> [i \in DOMAIN w.mQueue |->
                                                     w.mQueue[i].mSpectrums],
                                      noise   |-> [jj \in Bands(c) |->
                                                     Classify(c, st, w.mQueue, jj)],
                                      before  |-> GainsOf(w.mQueue),
                                      center  |-> GainsOf(q1),
                                      attack  |-> GainsOf(q2),
                                      release |-> GainsOf(q3) ] ]
    IN  IF ResynthGate(w) THEN Resynthesize(w3)
        ELSE w3

(***************************************************************************)
(* Worker::ProcessSamples: one iteration of its while loop                 *)
(***************************************************************************)
\* while (len && mOutStepCount * mStepSize < mInSampleCount)
\* variant: the gate counts the frames analysed and one more, not the
\* steps due for output
LoopGuardByFrames(w, buf) ==
    Len(buf) > 0 /\ (Len(w.frames) + 1) * w.c.mStepSize < w.mInSampleCount

LoopGuard(w, buf) ==
    Len(buf) > 0 /\ w.mOutStepCount * w.c.mStepSize < w.mInSampleCount

\* variant: the whole block is copied, whatever room the window has left
AvailWholeBlock(w, buf) == Len(buf)

\* int avail = std::min(int(len), mWindowSize - mInWavePos)
Avail(w, buf) == Min(Len(buf), w.c.mWindowSize - w.mInWavePos)

\* memmove(&mInWaveBuffer[mInWavePos], buffer, avail); mInWavePos += avail
CopyIn(w, buf) ==
    LET avail == Avail(w, buf)
        pos   == w.mInWavePos
    IN  [ w EXCEPT
          !.mInWaveBuffer = [i \in 1 .. w.c.mWindowSize |->
                               IF i > pos /\ i <= pos + avail THEN buf[i - pos]
                               ELSE w.mInWaveBuffer[i]],
          !.mInWavePos = pos + avail ]

\* variant: the position moves back, the samples stay
SlideInputNoMove(w) == [w EXCEPT !.mInWavePos = w.mInWavePos - w.c.mStepSize]

\* variant: the entries the slide vacates are cleared
SlideInputZeroFill(w) ==
    LET W    == w.c.mWindowSize
        step == w.c.mStepSize
    IN  [ w EXCEPT
          !.mInWaveBuffer = [i \in 1 .. W |->
                               IF i <= W - step THEN w.mInWaveBuffer[i + step]
                               ELSE 0],
          !.mInWavePos = w.mInWavePos - step ]

\* memmove(&mInWaveBuffer[0], &mInWaveBuffer[mStepSize], mWindowSize - mStepSize);
\* mInWavePos -= mStepSize
SlideInput(w) ==
    LET W    == w.c.mWindowSize
        step == w.c.mStepSize
    IN  [ w EXCEPT
          !.mInWaveBuffer = [i \in 1 .. W |->
                               IF i <= W - step THEN w.mInWaveBuffer[i + step]
                               ELSE w.mInWaveBuffer[i]],
          !.mInWavePos = w.mInWavePos - step ]

\* variant: the step is not counted
AnalyseFrameUncounted(w, st, shape) ==
    LET w1 == FillFirstHistoryWindow(w, shape)
        w2 == IF w.c.mDoProfile THEN w1 ELSE ReduceNoise(w1, st)
    IN  SlideInput(RotateHistoryWindows(w2))

\* the body of  if (mInWavePos == mWindowSize), for the Worker
AnalyseFrame(w, st, shape) ==
    LET w1 == FillFirstHistoryWindow(w, shape)
        w2 == IF w.c.mDoProfile THEN w1 ELSE ReduceNoise(w1, st)
        w3 == [w2 EXCEPT !.mOutStepCount = w2.mOutStepCount + 1]
    IN  SlideInput(RotateHistoryWindows(w3))

ProcessSamplesIter(w, st, buf, shape) ==
    LET w1 == CopyIn(w, buf)
    IN  IF w1.mInWavePos = w.c.mWindowSize THEN AnalyseFrame(w1, st, shape) ELSE w1

\* the statistics after the same iteration
ProcessSamplesStats(w, st, buf, shape) ==
    LET w1 == CopyIn(w, buf)
    IN  IF w1.mInWavePos = w.c.mWindowSize /\ w.c.mDoProfile
        THEN GatherStatistics(st, FillFirstHistoryWindow(w1, shape))
        ELSE st

(***************************************************************************)
(* Worker::FinishTrackStatistics                                           *)
(***************************************************************************)
\* a fraction in lowest terms, den > 0
Fraction(num, den) == [num |-> num \div Gcd(num, den), den |-> den \div Gcd(num, den)]

\* variant: the mean of the earlier tracks is dropped
FoldMeanLastTrack(mean, multiplier, sum, denom) == Fraction(sum, denom)

\* mean = (mean * multiplier + sum) / denom, without rounding
FoldMean(mean, multiplier, sum, denom) ==
    Fraction(mean.num * multiplier + sum * mean.den, mean.den * denom)

FinishTrackStatistics(st) ==
    LET windows    == st.mTrackWindows
        multiplier == st.mTotalWindows
        denom      == windows + multiplier
    IN  [ st EXCEPT
          !.mMeans = IF windows # 0
                     THEN [b \in DOMAIN st.mMeans |->
                             FoldMean(st.mMeans[b], multiplier, st.mSums[b], denom)]
                     ELSE st.mMeans,
          !.mSums = IF windows # 0 THEN [b \in DOMAIN st.mSums |-> 0] ELSE st.mSums,
          !.mTrackWindows = 0,
          !.mTotalWindows = denom ]

(***************************************************************************)
(* Inputs                                                                  *)
(***************************************************************************)
\* power spectra of a frame: silence, and a tone in the middle band
Silence(spectrumSize) == [b \in 0 .. spectrumSize - 1 |-> 0]
Tone(spectrumSize) == [b \in 0 .. spectrumSize - 1 |-> IF b = spectrumSize \div 2 THEN 9 ELSE 0]

\* input sample p (from 0) of the selection carries the tag p + 1
InputSamples(from, count) == [i \in 1 .. count |-> from + i]

AnyWorker == wk[CHOOSE r \in DOMAIN wk : TRUE]

(***************************************************************************)
(* Worker::ProcessOne, step by step                                        *)
(***************************************************************************)
DoStartNewTrack ==
    /\ pc = "constructed"
    /\ wk' = [r \in DOMAIN wk |-> StartNewTrack(wk[r])]
    /\ pc' = "loop"
    /\ samplePos' = 0
    /\ effect' = [effect EXCEPT !.started = @ \cup {effect.count},
                                !.blocks = 0, !.polls = 0]
    /\ UNCHANGED <<settings, track, stats, pending, caller>>

\* one pass of  while (bLoopSuccess && samplePos < start + len)  up to the
\* call of ProcessSamples
ReadBlock ==
    /\ pc = "loop"
    /\ samplePos < track.len
    /\ \E best \in track.blocks :
          LET blockSize == Min(track.len - samplePos, best)
          IN  /\ pending' = InputSamples(samplePos, blockSize)
              /\ samplePos' = samplePos + blockSize
              /\ wk' = [r \in DOMAIN wk |->
                          [wk[r] EXCEPT !.mInSampleCount = wk[r].mInSampleCount + blockSize]]
    /\ caller' = "feed"
    /\ pc' = "samples"
    /\ effect' = [effect EXCEPT !.blocks = @ + 1]
    /\ UNCHANGED <<settings, track, stats>>

ProcessSamplesStep ==
    /\ pc = "samples"
    /\ LoopGuard(AnyWorker, pending)
    /\ \E shape \in track.shapes :
          /\ wk' = [r \in DOMAIN wk |-> ProcessSamplesIter(wk[r], stats, pending, shape)]
          /\ stats' = ProcessSamplesStats(AnyWorker, stats, pending, shape)
          /\ effect' = IF stats' # stats
                       THEN [effect EXCEPT !.spectra = Append(@, shape)]
                       ELSE effect
    /\ pending' = SubSeq(pending, Avail(AnyWorker, pending) + 1, Len(pending))
    /\ UNCHANGED <<settings, track, pc, samplePos, caller>>

\* variant: the loop goes on whatever TrackProgress answers
AfterProgressIgnored(cancel) == "loop"

\* bLoopSuccess = !TrackProgress(...), the condition of the while loop
AfterProgress(cancel) == IF cancel THEN "cancelled" ELSE "loop"

\* ProcessSamples returns to ProcessOne, which asks TrackProgress
TrackProgress ==
    /\ pc = "samples"
    /\ caller = "feed"
    /\ ~LoopGuard(AnyWorker, pending)
    /\ \E cancel \in BOOLEAN :
          /\ pc' = AfterProgress(cancel)
          /\ effect' = [effect EXCEPT !.polls = @ + 1, !.cancelled = cancel]
    /\ UNCHANGED <<settings, track, stats, wk, samplePos, pending, caller>>

\* the loop of ProcessOne ends with bLoopSuccess
EndOfInput ==
    /\ pc = "loop"
    /\ ~(samplePos < track.len)
    /\ IF AnyWorker.c.mDoProfile
       THEN stats' = FinishTrackStatistics(stats) /\ pc' = "done"
       ELSE stats' = stats /\ pc' = "flush"
    /\ effect' = [effect EXCEPT
                    !.finished = @ \cup {effect.count},
                    !.contributed = IF AnyWorker.c.mDoProfile
                                    THEN Append(@, [len    |-> track.len,
                                                    step   |-> AnyWorker.c.mStepSize,
                                                    frames |-> stats.mTrackWindows])
                                    ELSE @]
    /\ UNCHANGED <<settings, track, wk, samplePos, pending, caller>>

\* variant: the flush stops one step early
FlushGuardEarly(w) == (w.mOutStepCount + 1) * w.c.mStepSize < w.mInSampleCount

\* FinishTrack: while (mOutStepCount * mStepSize < mInSampleCount) ProcessSamples(empty)
FlushGuard(w) == w.mOutStepCount * w.c.mStepSize < w.mInSampleCount

FlushCall ==
    /\ pc = "flush"
    /\ FlushGuard(AnyWorker)
    /\ pending' = [i \in 1 .. AnyWorker.c.mStepSize |-> 0]
    /\ caller' = "flush"
    /\ pc' = "samples"
    /\ UNCHANGED <<settings, track, stats, wk, samplePos, effect>>

FlushReturn ==
    /\ pc = "samples"
    /\ caller = "flush"
    /\ ~LoopGuard(AnyWorker, pending)
    /\ pc' = "flush"
    /\ UNCHANGED <<settings, track, stats, wk, samplePos, pending, caller, effect>>

\* after FinishTrack: Flush, HandleClear of the tail, ClearAndPaste
FinishOne ==
    /\ pc = "flush"
    /\ ~FlushGuard(AnyWorker)
    /\ wk' = [r \in DOMAIN wk |->
                [wk[r] EXCEPT !.outputTrack =
                    SubSeq(wk[r].outputTrack, 1, Min(track.len, Len(wk[r].outputTrack)))]]
    /\ pc' = "done"
    /\ effect' = [effect EXCEPT !.replaced = @ \cup {effect.count}]
    /\ UNCHANGED <<settings, track, stats, samplePos, pending, caller>>

Next ==
    \/ DoStartNewTrack
    \/ ReadBlock
    \/ ProcessSamplesStep
    \/ TrackProgress
    \/ EndOfInput
    \/ FlushCall
    \/ FlushReturn
    \/ FinishOne

(***************************************************************************)
(* Initial states: a validated configuration, a profile, a constructed     *)
(* Worker                                                                  *)
(***************************************************************************)
SampleRate == 100    \* Hz, the rate of the profile and of the track

BaseSettings ==
    [ mDoProfile            |-> FALSE,
      mSensitivity          |-> 0,
      mFreqSmoothingHz      |-> 0,
      mNoiseGain            |-> 24,
      mAttackTime           |-> 0,
      mReleaseTime          |-> 0,
      mNewSensitivity       |-> 1,
      mNoiseReductionChoice |-> NRC_REDUCE_NOISE,
      mWindowTypes          |-> WT_RECTANGULAR_HANN,
      mWindowSizeChoice     |-> 0,
      mStepsPerWindowChoice |-> 0,
      mMethod               |-> DM_SECOND_GREATEST ]

Choices == {NRC_REDUCE_NOISE, NRC_ISOLATE_NOISE, NRC_LEAVE_RESIDUE}

\* the statistics a successful profiling pass left
ProfileOf(s, rate) ==
    LET SS == 1 + WindowSize(s) \div 2
    IN  [ mRate           |-> rate,
          mWindowSize     |-> WindowSize(s),
          mWindowTypes    |-> s.mWindowTypes,
          mTotalWindows   |-> 4,
          mTrackWindows   |-> 0,
          mSums           |-> [b \in 0 .. SS - 1 |-> 0],
          mMeans          |-> [b \in 0 .. SS - 1 |-> [num |-> 1, den |-> 1]],
          mNoiseThreshold |-> [b \in 0 .. SS - 1 |-> 1] ]

\* new Statistics(spectrumSize, rate, windowTypes)
NewStatistics(s, rate) ==
    LET SS == 1 + WindowSize(s) \div 2
    IN  [ mRate           |-> rate,
          mWindowSize     |-> (SS - 1) * 2,
          mWindowTypes    |-> s.mWindowTypes,
          mTotalWindows   |-> 0,
          mTrackWindows   |-> 0,
          mSums           |-> [b \in 0 .. SS - 1 |-> 0],
          mMeans          |-> [b \in 0 .. SS - 1 |-> [num |-> 0, den |-> 1]],
          mNoiseThreshold |-> [b \in 0 .. SS - 1 |-> 0] ]

\* what stands in the stats variable while mStatistics is null
NullStatistics == NewStatistics(BaseSettings, 0)

\* the state of the effect before a Process call; h: whether mStatistics is set
EffectState(h, menu, s) ==
    [ hasStatistics |-> h,          \* mStatistics.get() != 0
      menu          |-> menu,       \* which configurations the dialog's controls offer
      mTempSettings |-> s,          \* the dialog's copy of the settings
      reduceEnabled |-> FALSE,      \* the Reduce button
      previewEnabled |-> FALSE,     \* the Preview button
      atOpen        |-> s,          \* *m_pSettings when the dialog was constructed
      preview       |-> FALSE,      \* OnPreview is inside m_pEffect->Preview()
      oldSettings   |-> s,          \* OnPreview's saved copy of *m_pSettings
      previews      |-> 0,          \* Preview presses of this dialog
      transfer      |-> "none",     \* what TransferDataFromWindow returned last
      project       |-> << >>,      \* the selected wave tracks of this Process call
      count         |-> 1,          \* Worker::Process: the track at the iterator
      bGoodResult   |-> FALSE,
      result        |-> "none",     \* what Process returned
      runs          |-> 0,          \* Process calls so far
      entry         |-> [ mDoProfile    |-> FALSE,    \* what this call found on entry
                          hasStatistics |-> FALSE,
                          stats         |-> NullStatistics ],
      nullRead      |-> FALSE,      \* this call read mStatistics->mWindowSize through null
      warned        |-> FALSE,      \* the window-type warning was shown
      workerBuilt   |-> FALSE,      \* this call constructed its Worker
      started       |-> {},         \* tracks ProcessOne was called for
      finished      |-> {},         \* tracks whose loop ended with bLoopSuccess
      replaced      |-> {},         \* tracks whose range got the output (ClearAndPaste)
      committed     |-> {},         \* tracks ReplaceProcessedTracks put in the project
      cancelled     |-> FALSE,      \* TrackProgress's last answer
      blocks        |-> 0,          \* blocks read from this track
      polls         |-> 0,          \* TrackProgress calls for this track
      contributed   |-> << >>,      \* per profiled track: its length and its frames
      spectra       |-> << >> ]     \* the power spectra GatherStatistics added up

InitWith(s, t, runs) ==
    /\ Validate(s)
    /\ effect = EffectState(TRUE, "effect", s)
    /\ settings = s
    /\ track = t
    /\ stats = ProfileOf(s, t.rate)
    /\ wk = [r \in runs |->
               Worker([s EXCEPT !.mNoiseReductionChoice = r], stats.mRate, t.f0, t.f1)]
    /\ pc = "constructed"
    /\ samplePos = 0
    /\ pending = << >>
    /\ caller = "feed"

\* Frame-buffer runs: every steps-per-window choice, every length, every partition
\* into blocks; one power spectrum.
BufferSettings ==
    { [BaseSettings EXCEPT !.mStepsPerWindowChoice = spw,
                           !.mNoiseReductionChoice = ch,
                           !.mAttackTime = at]
        : spw \in 0 .. 2, ch \in Choices, at \in {0, 80} }

BufferTracks ==
    { [ rate |-> SampleRate, len |-> n, blocks |-> 1 .. MaxBlock,
        f0 |-> 0 - 1, f1 |-> 0 - 1, shapes |-> {Silence(5)} ] : n \in 0 .. MaxLen }

Init ==
    \E s \in BufferSettings, t \in BufferTracks :
        InitWith(s, t, {s.mNoiseReductionChoice})

Spec == Init /\ [][Next]_vars

\* The same runs, the program never stopping while it has a step to take:
\* weak fairness of every step.  For the loop body of ProcessSamples the
\* fairness is written out: the body is enabled exactly when the loop
\* condition holds, and it is the only step that shortens the block held.
LoopBodyEnabled == pc = "samples" /\ LoopGuard(AnyWorker, pending)

LoopBodyTaken == pc = "samples" /\ Len(pending') < Len(pending)

SpecFlush ==
    /\ Init
    /\ [][Next]_vars
    /\ WF_vars(DoStartNewTrack \/ ReadBlock \/ TrackProgress \/ EndOfInput
                 \/ FlushCall \/ FlushReturn \/ FinishOne)
    /\ ([]<>(~LoopBodyEnabled) \/ []<><<LoopBodyTaken>>_vars)

\* Gain runs: two power spectra per frame, attack and release of one and of
\* three blocks, frequency smoothing off and over one bin, the classifiers of
\* two, three and five windows, the whole spectrum and a frequency selection,
\* reduction by 24 dB and by 0 dB.
GainSettings ==
    { [BaseSettings EXCEPT !.mNoiseReductionChoice = ch,
                           !.mAttackTime = at,
                           !.mReleaseTime = rt,
                           !.mFreqSmoothingHz = fs,
                           !.mMethod = me]
        : ch \in Choices, at \in {0, 80}, rt \in {0, 80}, fs \in {0, 13},
          me \in {DM_SECOND_GREATEST, DM_OLD_METHOD} }
    \cup { [BaseSettings EXCEPT !.mNoiseReductionChoice = ch,
                                !.mAttackTime = 80,
                                !.mFreqSmoothingHz = 13,
                                !.mNoiseGain = 0] : ch \in Choices }
    \cup { [BaseSettings EXCEPT !.mNoiseReductionChoice = ch,
                                !.mStepsPerWindowChoice = 1,
                                !.mAttackTime = 40,
                                !.mReleaseTime = 40,
                                !.mFreqSmoothingHz = 13,
                                !.mMethod = DM_MEDIAN] : ch \in Choices }

GainTracks ==
    { [ rate |-> SampleRate, len |-> GainLen, blocks |-> {GainBlock},
        f0 |-> f[1], f1 |-> f[2], shapes |-> {Silence(5), Tone(5)} ]
        : f \in {<<0 - 1, 0 - 1>>, <<25, 40>>} }

InitGain ==
    \E s \in GainSettings, t \in GainTracks :
        InitWith(s, t, {s.mNoiseReductionChoice})

SpecGain == InitGain /\ [][Next]_vars

\* Paired runs: Reduce and Residue workers fed the same samples and spectra
PairSettings == { s \in GainSettings : s.mNoiseReductionChoice = NRC_REDUCE_NOISE }

InitPair ==
    \E s \in PairSettings, t \in GainTracks :
        InitWith(s, t, {NRC_REDUCE_NOISE, NRC_LEAVE_RESIDUE})

SpecPair == InitPair /\ [][Next]_vars

\* Paired runs: Reduce and Isolate workers fed the same samples and spectra
InitIsolatePair ==
    \E s \in PairSettings, t \in GainTracks :
        InitWith(s, t, {NRC_REDUCE_NOISE, NRC_ISOLATE_NOISE})

SpecIsolatePair == InitIsolatePair /\ [][Next]_vars

(***************************************************************************)
(* EffectNoiseReduction: the dialog and Process                            *)
(***************************************************************************)
MaxRuns == 2         \* Process calls in one run of the effect model
MaxTracks == 2       \* selected wave tracks of a project

\* what a read through the null mStatistics may yield
Indeterminate(s) ==
    { ProfileOf([s EXCEPT !.mWindowSizeChoice = w], SampleRate) : w \in {0, 1} }

\* the wave tracks of a project: rate, whether the selection overlaps the track
\* (t1 > t0), the selected length, and the spectra its frames may have
NoTrack ==
    [ rate |-> 0, len |-> 0, blocks |-> {1}, f0 |-> 0 - 1, f1 |-> 0 - 1, shapes |-> {} ]

WaveTracks ==
    { [rate |-> SampleRate, selected |-> TRUE,  len |-> 9, kinds |-> {"tone"}],
      [rate |-> SampleRate, selected |-> TRUE,  len |-> 4, kinds |-> {"silence", "tone"}],
      [rate |-> SampleRate, selected |-> TRUE,  len |-> 3, kinds |-> {"silence"}],
      [rate |-> SampleRate, selected |-> FALSE, len |-> 0, kinds |-> {"silence"}],
      [rate |-> 50,         selected |-> TRUE,  len |-> 4, kinds |-> {"silence"}] }

TrackLists == UNION { [1 .. n -> WaveTracks] : n \in 0 .. MaxTracks }

ShapeOf(kind, spectrumSize) ==
    IF kind = "tone" THEN Tone(spectrumSize) ELSE Silence(spectrumSize)

\* the part of a wave track ProcessOne works on, for a Worker with constants c
Selection(t, c) ==
    [ rate |-> t.rate, len |-> t.len, blocks |-> {4}, f0 |-> 0 - 1, f1 |-> 0 - 1,
      shapes |-> { ShapeOf(k, c.mSpectrumSize) : k \in t.kinds } ]

\* the configurations the dialog offers in the runs of the whole effect
EffectMenu ==
    { [BaseSettings EXCEPT !.mWindowSizeChoice = w, !.mWindowTypes = wt]
        : w \in {0, 1}, wt \in {WT_RECTANGULAR_HANN, WT_HANN_RECTANGULAR} }

\* the configurations the dialog offers in the runs with Preview
SessionMenu ==
    { [BaseSettings EXCEPT !.mWindowTypes = wt]
        : wt \in {WT_RECTANGULAR_HANN, WT_HANN_RECTANGULAR} }

\* every combination of the choice controls of the dialog: window sizes 8 to
\* 16384, steps per window 2 to 64, the window types, the methods
LadderSettings ==
    { [BaseSettings EXCEPT !.mWindowSizeChoice = w,
                           !.mStepsPerWindowChoice = spw,
                           !.mWindowTypes = wt,
                           !.mMethod = me]
        : w \in 0 .. 11, spw \in 0 .. 5,
          wt \in {WT_RECTANGULAR_HANN, WT_HANN_RECTANGULAR, WT_HANN_HANN, WT_BLACKMAN_HANN},
          me \in {DM_MEDIAN, DM_SECOND_GREATEST, DM_OLD_METHOD} }

\* the configurations the controls of the dialog can hold in a run
Offered(menu) ==
    IF menu = "ladder" THEN LadderSettings
    ELSE IF menu = "session" THEN SessionMenu
    ELSE EffectMenu

\* EffectNoiseReduction::PromptUser up to ShowModal: the dialog is built on a
\* copy of the settings; twiddle: GetNumWaveTracks() == 0
PromptUser ==
    /\ pc = "idle"
    /\ ~effect.preview
    /\ effect.runs < MaxRuns
    /\ \E twiddle \in BOOLEAN :
          effect' = [EffectState(effect.hasStatistics, effect.menu, settings) EXCEPT
                       !.runs = effect.runs,
                       !.reduceEnabled = effect.hasStatistics \/ twiddle,
                       !.previewEnabled = IF effect.hasStatistics \/ twiddle
                                          THEN ~twiddle ELSE FALSE]
    /\ pc' = "dialog"
    /\ UNCHANGED <<settings, track, stats, wk, samplePos, pending, caller>>

\* a button that ends the dialog with a return code (the dialog, its Preview
\* button and its copies of the settings are gone): the controls, holding t,
\* are transferred and validated; on success Settings::PromptUser takes the
\* temporary settings and sets mDoProfile = (returnCode == 1)
EndModalWith(t, returnCode) ==
    IF Validate(t)
    THEN /\ effect' = [effect EXCEPT !.mTempSettings = t, !.transfer = "valid",
                                     !.previewEnabled = FALSE,
                                     !.atOpen = t, !.oldSettings = t]
         /\ settings' = [t EXCEPT !.mDoProfile = (returnCode = 1)]
         /\ pc' = "ready"
    ELSE /\ effect' = [effect EXCEPT !.mTempSettings = t, !.transfer = "invalid"]
         /\ settings' = settings
         /\ pc' = "dialog"

OnGetProfile ==
    /\ pc = "dialog"
    /\ \E t \in Offered(effect.menu) : EndModalWith(t, 1)
    /\ UNCHANGED <<track, stats, wk, samplePos, pending, caller>>

OnReduceNoise ==
    /\ pc = "dialog"
    /\ effect.reduceEnabled
    /\ \E t \in Offered(effect.menu) : EndModalWith(t, 2)
    /\ UNCHANGED <<track, stats, wk, samplePos, pending, caller>>

OnCancel ==
    /\ pc = "dialog"
    /\ pc' = "idle"
    /\ UNCHANGED <<settings, track, stats, wk, samplePos, pending, caller, effect>>

NextDialog ==
    \/ PromptUser
    \/ OnGetProfile
    \/ OnReduceNoise
    \/ OnCancel

\* mStatistics->mWindowSize != mSettings->WindowSize()
WindowSizeDiffers(st, s) == st.mWindowSize # WindowSize(s)

\* variant: the window types of the profile are not compared
WindowTypesDifferNever(st, s) == FALSE

\* mStatistics->mWindowTypes != mSettings->mWindowTypes
WindowTypesDiffer(st, s) == st.mWindowTypes # s.mWindowTypes

\* mDoProfile and the statistics as a Process call finds them
AtEntry ==
    [ mDoProfile |-> settings.mDoProfile, hasStatistics |-> effect.hasStatistics,
      stats |-> stats ]

\* Process from the checks of the profile on, reading st as *mStatistics
ProcessWith(st, tl) ==
    IF ~settings.mDoProfile /\ WindowSizeDiffers(st, settings)
    THEN /\ effect' = [effect EXCEPT !.runs = @ + 1, !.project = tl, !.entry = AtEntry,
                                     !.nullRead = ~effect.hasStatistics /\ ~settings.mDoProfile,
                                     !.result = "false"]
         /\ pc' = "idle"
         /\ stats' = stats
         /\ wk' = wk
    ELSE /\ effect' = [effect EXCEPT !.runs = @ + 1, !.project = tl, !.entry = AtEntry,
                                     !.nullRead = ~effect.hasStatistics /\ ~settings.mDoProfile,
                                     !.hasStatistics = @ \/ settings.mDoProfile,
                                     !.workerBuilt = TRUE,
                                     !.warned = ~settings.mDoProfile
                                                /\ WindowTypesDiffer(st, settings)]
         /\ pc' = "track"
         /\ stats' = st
         /\ wk' = [r \in {settings.mNoiseReductionChoice} |->
                     Worker(settings, st.mRate, 0 - 1, 0 - 1)]

\* EffectNoiseReduction::Process up to the call of Worker::Process
ProcessEntry ==
    /\ pc = "ready"
    /\ \E tl \in TrackLists :
          IF Len(tl) = 0
          THEN /\ effect' = [effect EXCEPT !.runs = @ + 1, !.project = tl, !.entry = AtEntry,
                                           !.result = "false"]
               /\ pc' = "idle"
               /\ UNCHANGED <<stats, wk>>
          ELSE IF settings.mDoProfile
          THEN ProcessWith(NewStatistics(settings, tl[1].rate), tl)
          ELSE IF effect.hasStatistics
          THEN ProcessWith(stats, tl)
          ELSE \* mStatistics is null and is dereferenced
               \/ /\ effect' = [effect EXCEPT !.runs = @ + 1, !.project = tl, !.entry = AtEntry,
                                              !.nullRead = TRUE, !.result = "crash"]
                  /\ pc' = "crashed"
                  /\ UNCHANGED <<stats, wk>>
               \/ \E st \in Indeterminate(settings) : ProcessWith(st, tl)
    /\ UNCHANGED <<settings, track, samplePos, pending, caller>>

\* variant: the rate of a track is not compared
RateDiffersNever(t, c) == FALSE

\* track->GetRate() != mSampleRate
RateDiffers(t, c) == t.rate # c.mSampleRate

\* Worker::Process: one pass of its while (track) loop up to ProcessOne
CheckTrack ==
    /\ pc = "track"
    /\ effect.count <= Len(effect.project)
    /\ LET t == effect.project[effect.count]
       IN  IF RateDiffers(t, AnyWorker.c)
           THEN /\ effect' = [effect EXCEPT !.bGoodResult = FALSE]
                /\ pc' = "after"
                /\ track' = track
           ELSE IF t.selected
           THEN /\ effect' = effect
                /\ pc' = "constructed"
                /\ track' = Selection(t, AnyWorker.c)
           ELSE /\ effect' = [effect EXCEPT !.count = @ + 1]
                /\ pc' = "track"
                /\ track' = track
    /\ UNCHANGED <<settings, stats, wk, samplePos, pending, caller>>

\* variant: an empty profile passes
TooShortNever(s, st) == FALSE

\* mDoProfile && statistics.mTotalWindows == 0
TooShort(s, st) == s.mDoProfile /\ st.mTotalWindows = 0

\* Worker::Process after its loop
EndOfTracks ==
    /\ pc = "track"
    /\ effect.count > Len(effect.project)
    /\ effect' = [effect EXCEPT !.bGoodResult = ~TooShort(settings, stats)]
    /\ pc' = "after"
    /\ UNCHANGED <<settings, track, stats, wk, samplePos, pending, caller>>

\* ProcessOne returned true: the iterator moves on
TrackDone ==
    /\ pc = "done"
    /\ effect' = [effect EXCEPT !.count = @ + 1]
    /\ pc' = "track"
    /\ UNCHANGED <<settings, track, stats, wk, samplePos, pending, caller>>

\* ProcessOne returned false: Worker::Process returns false
TrackCancelled ==
    /\ pc = "cancelled"
    /\ effect' = [effect EXCEPT !.bGoodResult = FALSE]
    /\ pc' = "after"
    /\ UNCHANGED <<settings, track, stats, wk, samplePos, pending, caller>>

\* variant: a failed profiling pass keeps its statistics
KeepsStatisticsAlways(doProfile, good) == TRUE

\* whether mStatistics is still set after  if (mSettings->mDoProfile) {...}
KeepsStatistics(doProfile, good) == ~doProfile \/ good

\* EffectNoiseReduction::Process after Worker::Process returned
ProcessExit ==
    /\ pc = "after"
    /\ settings' = [settings EXCEPT
                      !.mDoProfile = IF @ /\ effect.bGoodResult THEN FALSE ELSE @]
    /\ LET keeps == effect.hasStatistics
                      /\ KeepsStatistics(settings.mDoProfile, effect.bGoodResult)
       IN  /\ effect' = [effect EXCEPT
                           !.hasStatistics = keeps,
                           !.committed = IF effect.bGoodResult THEN effect.replaced ELSE {},
                           !.result = IF effect.bGoodResult THEN "true" ELSE "false"]
           /\ stats' = IF settings.mDoProfile /\ ~keeps THEN NullStatistics ELSE stats
    /\ pc' = "idle"
    /\ UNCHANGED <<track, wk, samplePos, pending, caller>>

NextEffect ==
    \/ NextDialog
    \/ ProcessEntry
    \/ CheckTrack
    \/ EndOfTracks
    \/ Next
    \/ TrackDone
    \/ TrackCancelled
    \/ ProcessExit

\* the effect as constructed: Settings() has mDoProfile set and reads the
\* preferences, mStatistics is null
InitEffectWith(menu, prefs) ==
    /\ \E s \in prefs : settings = [s EXCEPT !.mDoProfile = TRUE]
    /\ effect = EffectState(FALSE, menu, settings)
    /\ track = NoTrack
    /\ stats = NullStatistics
    /\ wk = << >>
    /\ pc = "idle"
    /\ samplePos = 0
    /\ pending = << >>
    /\ caller = "feed"

InitEffect == InitEffectWith("effect", EffectMenu)

SpecEffect == InitEffect /\ [][NextEffect]_vars

\* Dialog runs: the dialog alone, over all its choices
InitValidate == InitEffectWith("ladder", {BaseSettings})

SpecValidate == InitValidate /\ [][NextDialog]_vars

(***************************************************************************)
(* The dialog with its Preview button                                      *)
(***************************************************************************)
MaxPreviews == 2     \* Preview presses in one dialog

\* variant: the settings installed for the preview stay
RestoreSettingsNot(oldSettings, installed) == installed

\* *m_pSettings = oldSettings
RestoreSettings(oldSettings, installed) == oldSettings

\* Dialog::OnPreview up to the call of Process in Effect::Preview: the
\* controls, holding t, are transferred and validated, the settings are
\* saved, t is installed with mDoProfile = false
OnPreview ==
    /\ pc = "dialog"
    /\ effect.previewEnabled
    /\ effect.previews < MaxPreviews
    /\ \E t \in Offered(effect.menu) :
          IF Validate(t)
          THEN /\ effect' = [effect EXCEPT !.mTempSettings = t, !.transfer = "valid",
                                           !.preview = TRUE, !.previews = @ + 1,
                                           !.oldSettings = settings]
               /\ settings' = [t EXCEPT !.mDoProfile = FALSE]
               /\ pc' = "ready"
          ELSE /\ effect' = [effect EXCEPT !.mTempSettings = t, !.transfer = "invalid"]
               /\ settings' = settings
               /\ pc' = "dialog"
    /\ UNCHANGED <<track, stats, wk, samplePos, pending, caller>>

\* Dialog::OnPreview after Preview() returned: the saved settings are put
\* back; the Worker of the preview and its output are gone
PreviewReturn ==
    /\ pc = "idle"
    /\ effect.preview
    /\ settings' = RestoreSettings(effect.oldSettings, settings)
    /\ effect' = [EffectState(effect.hasStatistics, effect.menu, effect.mTempSettings) EXCEPT
                    !.runs = effect.runs,
                    !.reduceEnabled = effect.reduceEnabled,
                    !.previewEnabled = effect.previewEnabled,
                    !.atOpen = effect.atOpen,
                    !.oldSettings = effect.oldSettings,
                    !.previews = effect.previews,
                    !.transfer = effect.transfer,
                    !.result = effect.result,
                    !.entry = effect.entry,
                    !.nullRead = effect.nullRead]
    /\ track' = NoTrack
    /\ wk' = << >>
    /\ pc' = "dialog"
    /\ UNCHANGED <<stats, samplePos, pending, caller>>

NextSessions ==
    \/ NextEffect
    \/ OnPreview
    \/ PreviewReturn

InitSessions == InitEffectWith("session", SessionMenu)

SpecSessions == InitSessions /\ [][NextSessions]_vars

(***************************************************************************)
(* The track loop of Worker::Process alone: one reducing Worker, built as  *)
(* Process builds it, taken through a project of MaxTracks wave tracks in  *)
(* each of the three modes.                                                *)
(***************************************************************************)
TrackSettings ==
    { [BaseSettings EXCEPT !.mNoiseReductionChoice = ch, !.mAttackTime = at]
        : ch \in Choices, at \in {0, 80} }

InitTracks ==
    \E s \in TrackSettings, tl \in [1 .. MaxTracks -> WaveTracks] :
        /\ settings = s
        /\ stats = ProfileOf(s, SampleRate)
        /\ effect = [EffectState(TRUE, "effect", s) EXCEPT
                        !.project = tl, !.runs = 1, !.workerBuilt = TRUE,
                        !.entry = [ mDoProfile |-> FALSE, hasStatistics |-> TRUE,
                                    stats |-> ProfileOf(s, SampleRate) ]]
        /\ wk = [r \in {s.mNoiseReductionChoice} |-> Worker(s, SampleRate, 0 - 1, 0 - 1)]
        /\ track = NoTrack
        /\ pc = "track"
        /\ samplePos = 0
        /\ pending = << >>
        /\ caller = "feed"

NextTracks == CheckTrack \/ EndOfTracks \/ Next \/ TrackDone \/ TrackCancelled

SpecTracks == InitTracks /\ [][NextTracks]_vars

\* Classifier runs: a Worker per sensitivity over one ring whose slots hold
\* every combination of powers, with the new methods, three and five windows
\* examined, and a ring longer than the windows examined
ClassifySettings ==
    { [BaseSettings EXCEPT !.mStepsPerWindowChoice = x[1],
                           !.mAttackTime = x[2],
                           !.mMethod = me]
        : x \in {<<0, 0>>, <<0, 80>>, <<1, 0>>},
          me \in {DM_MEDIAN, DM_SECOND_GREATEST} }

\* settings.mNewSensitivity of the Workers compared
Sensitivities == {0, 1, 2}

\* a profile whose means are 0, 1/2, 1, 3/2, ... by band
ClassifyStatistics(s) ==
    [ ProfileOf(s, SampleRate) EXCEPT
        !.mMeans = [b \in DOMAIN @ |-> Fraction(b, 2)] ]

\* the ring with slot i holding power levels[i] in every band
RingOf(w, levels) ==
    [ w EXCEPT !.mQueue = [i \in DOMAIN w.mQueue |->
                             [w.mQueue[i] EXCEPT
                                !.mSpectrums = [b \in Bands(w.c) |-> levels[i]]]] ]

InitClassify ==
    \E s \in ClassifySettings :
        \E levels \in [1 .. HistoryLen(s, SampleRate) -> 0 .. MaxPower] :
            /\ settings = s
            /\ effect = EffectState(TRUE, "effect", s)
            /\ track = NoTrack
            /\ stats = ClassifyStatistics(s)
            /\ wk = [x \in Sensitivities |->
                       RingOf(StartNewTrack(Worker([s EXCEPT !.mNewSensitivity = x],
                                                   SampleRate, 0 - 1, 0 - 1)),
                              levels)]
            /\ pc = "frame"
            /\ samplePos = 0
            /\ pending = << >>
            /\ caller = "feed"

\* ReduceNoise on that ring
ReduceNoiseStep ==
    /\ pc = "frame"
    /\ wk' = [x \in DOMAIN wk |-> ReduceNoise(wk[x], stats)]
    /\ pc' = "reduced"
    /\ UNCHANGED <<settings, track, stats, samplePos, pending, caller, effect>>

NextClassify == ReduceNoiseStep

SpecClassify == InitClassify /\ [][NextClassify]_vars

(***************************************************************************)
(* The analysis and synthesis windows (constructor, lines 795-846) and the *)
(* weight a sample collects on its way through the steps_per_window frames *)
(* that hold it.  Numbers are exact: with z a primitive mWindowSize-th     *)
(* root of unity, 2 cos(2 pi m / mWindowSize) = z^m + z^-m, and a number   *)
(* is a fraction whose numerator is an integer vector over the basis       *)
(* 1, z, ..., z^(mWindowSize/2 - 1), with z^(mWindowSize/2) = -1.          *)
(***************************************************************************)
\* windowTypesInfo[..].inCoefficients, in fiftieths
inCoefficients == << <<50, 0, 0>>, <<25, 0 - 25, 0>>, <<25, 0 - 25, 0>>, <<21, 0 - 25, 4>> >>

\* windowTypesInfo[..].outCoefficients, in fiftieths
outCoefficients == << <<25, 0 - 25, 0>>, <<50, 0, 0>>, <<25, 0 - 25, 0>>, <<25, 0 - 25, 0>> >>

\* windowTypesInfo[..].productConstantTerm, in thousandths
productConstantTerm == <<500, 500, 375, 335>>

\* z^e over the basis of n powers
ZUnit(e, n) ==
    LET r == e % (2 * n)
    IN  [k \in 0 .. n - 1 |->
           IF r < n THEN (IF k = r THEN 1 ELSE 0)
           ELSE (IF k = r - n THEN 0 - 1 ELSE 0)]

ZAdd(a, b) == [k \in DOMAIN a |-> a[k] + b[k]]

ZScale(x, a) == [k \in DOMAIN a |-> x * a[k]]

RECURSIVE ZConv(_, _, _, _)
\* the coefficient of z^k in a * b, summed over a's terms i, i - 1, ..., 0
ZConv(a, b, k, i) ==
    LET n == Cardinality(DOMAIN a)
    IN  IF i < 0 THEN 0
        ELSE (IF i <= k THEN a[i] * b[k - i] ELSE 0 - a[i] * b[k - i + n])
               + ZConv(a, b, k, i - 1)

ZMul(a, b) == [k \in DOMAIN a |-> ZConv(a, b, k, Cardinality(DOMAIN a) - 1)]

\* 2 * cos(2 pi m / W)
TwoCos(m, W) == ZAdd(ZUnit(m % W, W \div 2), ZUnit((W - (m % W)) % W, W \div 2))

\* the number 1 over the basis of n powers
One(n) == [num |-> ZUnit(0, n), den |-> 1]

\* variant: the correction does not shrink as the overlaps grow
WindowMultiplierWithoutSteps(s) == Fraction(1000, productConstantTerm[s.mWindowTypes + 1])

\* multiplier = 1.0 / (constantTerm * mStepsPerWindow)
WindowMultiplier(s) ==
    Fraction(1000, productConstantTerm[s.mWindowTypes + 1] * StepsPerWindow(s))

\* m * (c0 + c1 * cos(2 pi ii / W) + c2 * cos(4 pi ii / W)) for ii = 0 .. W - 1
CosineWindow(coefficients, m, W) ==
    [i \in 1 .. W |->
       [ num |-> ZScale(m.num,
                   ZAdd(ZScale(2 * coefficients[1], ZUnit(0, W \div 2)),
                        ZAdd(ZScale(coefficients[2], TwoCos(i - 1, W)),
                             ZScale(coefficients[3], TwoCos(2 * (i - 1), W))))),
         den |-> 100 * m.den ]]

\* mInWindow; << >> is the vector never resized
InWindow(s) ==
    IF s.mWindowTypes = WT_RECTANGULAR_HANN THEN << >>
    ELSE CosineWindow(inCoefficients[s.mWindowTypes + 1],
                      IF s.mWindowTypes = WT_HANN_RECTANGULAR THEN WindowMultiplier(s)
                      ELSE Fraction(1, 1),
                      WindowSize(s))

\* mOutWindow
OutWindow(s) ==
    IF s.mDoProfile \/ s.mWindowTypes = WT_HANN_RECTANGULAR THEN << >>
    ELSE CosineWindow(outCoefficients[s.mWindowTypes + 1], WindowMultiplier(s), WindowSize(s))

\* the factor a window puts on buffer position ii: none when it has no entries
\* (if (mInWindow.size() > 0), if (mOutWindow.size() > 0))
WindowAt(window, ii, W) == IF window = << >> THEN One(W \div 2) ELSE window[ii + 1]

QMul(a, b) == [num |-> ZMul(a.num, b.num), den |-> a.den * b.den]

QAdd(a, b) ==
    IF a.den = b.den THEN [num |-> ZAdd(a.num, b.num), den |-> a.den]
    ELSE [num |-> ZAdd(ZScale(b.den, a.num), ZScale(a.den, b.num)), den |-> a.den * b.den]

\* the settings whose windows are built: both smallest window sizes, every
\* window type and every number of steps Validate lets through
WindowSettings ==
    { s \in { [BaseSettings EXCEPT !.mWindowSizeChoice = w, !.mStepsPerWindowChoice = p,
                                   !.mWindowTypes = t, !.mDoProfile = d,
                                   !.mMethod = DM_SECOND_GREATEST] :
                w \in {0, 1}, p \in 0 .. 3, t \in 0 .. 3, d \in BOOLEAN } :
        Validate(s) }

InitWindows ==
    \E s \in WindowSettings :
        /\ settings = s
        /\ effect = EffectState(TRUE, "effect", s)
        /\ track = NoTrack
        /\ stats = NullStatistics
        /\ wk = << >>
        /\ pc = "windows"
        /\ samplePos = 0
        /\ pending = << >>
        /\ caller = "feed"

\* the constructor's "Create windows"; weight[j + 1] is what sample j of the
\* newest step has collected in mOutOverlapBuffer so far
CreateWindows ==
    /\ pc = "windows"
    /\ wk' = [ mInWindow  |-> InWindow(settings),
               mOutWindow |-> OutWindow(settings),
               weight     |-> [j \in 1 .. WindowSize(settings) \div StepsPerWindow(settings) |->
                                 [num |-> ZScale(0, ZUnit(0, WindowSize(settings) \div 2)),
                                  den |-> 1]] ]
    /\ pc' = IF settings.mDoProfile THEN "profile" ELSE "overlap"
    /\ UNCHANGED <<settings, track, stats, samplePos, pending, caller, effect>>

\* one more frame with every gain 1: the samples that entered samplePos frames
\* ago stand (samplePos + 1) steps before the end of the buffer, are multiplied
\* by the analysis window, transformed forth and back, multiplied by the
\* synthesis window and added to mOutOverlapBuffer
OverlapAdd ==
    /\ pc = "overlap"
    /\ LET W    == WindowSize(settings)
           step == W \div StepsPerWindow(settings)
           at   == W - (samplePos + 1) * step
       IN  /\ wk' = [wk EXCEPT !.weight =
                       [j \in 1 .. step |->
                          QAdd(wk.weight[j],
                               QMul(WindowAt(wk.mInWindow, at + j - 1, W),
                                    WindowAt(wk.mOutWindow, at + j - 1, W)))]]
           /\ samplePos' = samplePos + 1
           /\ pc' = IF samplePos + 1 = StepsPerWindow(settings) THEN "added" ELSE "overlap"
    /\ UNCHANGED <<settings, track, stats, pending, caller, effect>>

NextWindows == CreateWindows \/ OverlapAdd

SpecWindows == InitWindows /\ [][NextWindows]_vars

(***************************************************************************)
(* The indices the constructor derives (lines 771-793) for every setting   *)
(* of the dialog's ladders, attack times of 0, 20 and 80 ms, three sample  *)
(* rates and both passes.  A Worker is built only from settings that       *)
(* passed Validate.                                                        *)
(***************************************************************************)
IndexSettings ==
    { [s EXCEPT !.mAttackTime = at, !.mDoProfile = d] :
        s \in LadderSettings, at \in {0, 20, 80}, d \in BOOLEAN }

\* sample rates of the tracks, in Hz
IndexRates == {SampleRate, 8000, 44100}

\* the branch Worker::Classify takes for these indices
ClassifyBranch(method, nWindowsToExamine) ==
    CASE method = DM_OLD_METHOD -> "minimum"
      [] method = DM_MEDIAN ->
            IF nWindowsToExamine = 3 THEN "second greatest"
            ELSE IF nWindowsToExamine = 5 THEN "third greatest"
            ELSE "unsupported"
      [] method = DM_SECOND_GREATEST -> "second greatest"
      [] OTHER -> "unsupported"

InitIndices ==
    \E s \in IndexSettings, rate \in IndexRates :
        /\ settings = s
        /\ effect = EffectState(TRUE, "ladder", s)
        /\ track = [NoTrack EXCEPT !.rate = rate]
        /\ stats = NullStatistics
        /\ wk = << >>
        /\ pc = "validate"
        /\ samplePos = 0
        /\ pending = << >>
        /\ caller = "feed"

\* Settings::Validate let the settings through and the constructor ran
ConstructIndices ==
    /\ pc = "validate"
    /\ Validate(settings)
    /\ wk' = [ mNWindowsToExamine |-> NWindowsToExamine(settings, track.rate),
               mCenter            |-> NWindowsToExamine(settings, track.rate) \div 2,
               nAttackBlocks      |-> NAttackBlocks(settings, track.rate),
               mHistoryLen        |-> HistoryLen(settings, track.rate),
               branch             |-> ClassifyBranch(settings.mMethod,
                                         NWindowsToExamine(settings, track.rate)) ]
    /\ pc' = "indices"
    /\ UNCHANGED <<settings, track, stats, samplePos, pending, caller, effect>>

NextIndices == ConstructIndices

SpecIndices == InitIndices /\ [][NextIndices]_vars

(***************************************************************************)
(* widgets/valnum.cpp: validation of the text of an integer control        *)
(***************************************************************************)
MaxText == 3         \* characters in the text of a control

\* the characters a text is made of: digits, the minus sign, the thousands
\* separator of the locale, and a character that is none of these
Digits == {"0", "1", "7"}

ThousandsSep == ","

Chars == Digits \cup {"-", ThousandsSep, "x"}

Texts == UNION { [1 .. n -> Chars] : n \in 0 .. MaxText }

\* s.Replace(wxString(thousandsSep), wxString())
RemoveSeparators(s) == SelectSeq(s, LAMBDA ch : ch # ThousandsSep)

DigitValue(ch) == CASE ch = "0" -> 0 [] ch = "1" -> 1 [] ch = "7" -> 7

RECURSIVE DigitsValue(_)
\* the number a string of digits denotes
DigitsValue(s) ==
    IF s = << >> THEN 0
    ELSE 10 * DigitsValue(SubSeq(s, 1, Len(s) - 1)) + DigitValue(s[Len(s)])

\* IntegerValidatorBase::FromString: the whole string is an optional minus
\* sign and at least one digit; value is what it denotes
FromString(s) ==
    LET negative == s # << >> /\ s[1] = "-"
        body == IF negative THEN Tail(s) ELSE s
        ok == body # << >> /\ \A i \in 1 .. Len(body) : body[i] \in Digits
    IN  [ res |-> ok,
          value |-> IF ~ok THEN 0
                    ELSE IF negative THEN 0 - DigitsValue(body) ELSE DigitsValue(body) ]

\* variant: only the lower end of the range is tested
IsInRangeNoMax(value, min, max) == min <= value

\* IsInRange(value)
IsInRange(value, min, max) == min <= value /\ value <= max

\* IntegerValidatorBase::DoValidateNumber on a control c: its result and
\* the message it leaves in *errMsg
DoValidateNumber(c) ==
    IF ~c.isTextEntry THEN [res |-> FALSE, errMsg |-> ""]
    ELSE LET s == IF c.sepUsed THEN RemoveSeparators(c.text) ELSE c.text
         IN  IF s = << >>
             THEN IF c.zeroAsBlank
                  THEN [res |-> TRUE, errMsg |-> ""]
                  ELSE [res |-> FALSE, errMsg |-> "Empty value"]
             ELSE LET parsed == FromString(s)
                  IN  IF ~parsed.res
                      THEN [res |-> FALSE, errMsg |-> "Malformed number"]
                      ELSE IF ~IsInRange(parsed.value, c.min, c.max)
                      THEN [res |-> FALSE, errMsg |-> "Not in range"]
                      ELSE [res |-> TRUE, errMsg |-> ""]

\* the controls: text, whether the window is a text control, whether it is
\* enabled, whether the locale uses a thousands separator, the
\* NUM_VAL_ZERO_AS_BLANK flag, the range
NumControls ==
    { [ text |-> t, isTextEntry |-> e[1], enabled |-> e[2], sepUsed |-> sep,
        zeroAsBlank |-> z, min |-> r[1], max |-> r[2] ]
        : t \in Texts, e \in {<<TRUE, TRUE>>, <<TRUE, FALSE>>, <<FALSE, TRUE>>},
          sep \in BOOLEAN, z \in BOOLEAN, r \in {<<0 - 5, 15>>, <<1, 100>>} }

InitValnum ==
    \E c \in NumControls :
        /\ track = c
        /\ effect = [called |-> FALSE, res |-> FALSE, errMsg |-> "",
                     shown |-> "", focused |-> FALSE, returned |-> FALSE]
        /\ settings = BaseSettings
        /\ stats = NullStatistics
        /\ wk = << >>
        /\ pc = "text"
        /\ samplePos = 0
        /\ pending = << >>
        /\ caller = "feed"

\* NumValidatorBase::Validate
NumValidate ==
    /\ pc = "text"
    /\ IF ~track.enabled
       THEN effect' = [effect EXCEPT !.returned = TRUE]
       ELSE LET r == DoValidateNumber(track)
            IN  effect' = [ called |-> TRUE, res |-> r.res, errMsg |-> r.errMsg,
                            shown |-> IF r.res THEN "" ELSE r.errMsg,
                            focused |-> ~r.res, returned |-> r.res ]
    /\ pc' = "validated"
    /\ UNCHANGED <<settings, track, stats, wk, samplePos, pending, caller>>

NextValnum == NumValidate

SpecValnum == InitValnum /\ [][NextValnum]_vars

(***************************************************************************)
(* Reference values, computed from the track and the configuration alone   *)
(***************************************************************************)
\* the input sample at position p of the selection; 0.0 outside it
RefSample(p) == IF p >= 0 /\ p < track.len THEN p + 1 ELSE 0

\* the input position of the first sample of the window of frame f (from 0)
WindowStart(c, f) == (f + 1 - c.mStepsPerWindow) * c.mStepSize

RefFrame(c, f) == [i \in 1 .. c.mWindowSize |-> RefSample(WindowStart(c, f) + i - 1)]

\* the terms of output sample p (from 0): one per frame whose window covers p,
\* in the order of the frames
RefTerms(c, p) ==
    LET k == p \div c.mStepSize
    IN  [m \in 1 .. c.mStepsPerWindow |->
            <<k + m - 1, p - WindowStart(c, k + m - 1)>>]

RefOutput(c, count) == [p \in 1 .. count |-> RefTerms(c, p - 1)]

\* frames analysed before the first emitted block
Latency(c) == (c.mHistoryLen - 1) + (c.mStepsPerWindow - 1)

(***************************************************************************)
(* C1: in reducing mode mOutStepCount is -(mHistoryLen-1)-(mStepsPerWindow *)
(* -1) right after StartNewTrack and grows by one per analysed frame, and  *)
(* a block of mStepSize samples is appended for a frame exactly when       *)
(* mOutStepCount >= 0 as that frame is processed: at every point of the    *)
(* track mOutStepCount is the number of frames analysed minus the start    *)
(* offset, and the samples appended are mStepSize times the number of      *)
(* frames that were processed with mOutStepCount >= 0.                     *)
(***************************************************************************)
C1_OutStepCount ==
    pc # "constructed" =>
        \A r \in DOMAIN wk :
            LET w == wk[r]
                c == w.c
            IN  /\ w.mOutStepCount
                     = Len(w.frames) - (c.mHistoryLen - 1) - (c.mStepsPerWindow - 1)
                /\ pc # "done" =>
                     Len(w.outputTrack) = c.mStepSize * Cardinality(
                        { f \in 0 .. Len(w.frames) - 1 :
                            f - (c.mHistoryLen - 1) - (c.mStepsPerWindow - 1) >= 0 })

C1_Witness ==
    /\ pc = "samples"
    /\ AnyWorker.mOutStepCount = 2
    /\ Len(AnyWorker.outputTrack) = 2 * AnyWorker.c.mStepSize
    /\ Len(AnyWorker.frames) > 2

(***************************************************************************)
(* C2: when the end-of-track flush has finished, the number of samples     *)
(* appended to the output track is at least the input length and exceeds   *)
(* it by less than mStepSize; after the tail is cleared exactly the input  *)
(* length remains.                                                         *)
(***************************************************************************)
C2_OutputLength ==
    \A r \in DOMAIN wk :
        LET w == wk[r]
        IN  /\ (pc = "flush" /\ ~(w.mOutStepCount * w.c.mStepSize < w.mInSampleCount)) =>
                 /\ track.len <= Len(w.outputTrack)
                 /\ Len(w.outputTrack) < track.len + w.c.mStepSize
            /\ pc = "done" => Len(w.outputTrack) = track.len

C2_Witness ==
    /\ pc = "flush"
    /\ ~(AnyWorker.mOutStepCount * AnyWorker.c.mStepSize < AnyWorker.mInSampleCount)
    /\ track.len > 0
    /\ Len(AnyWorker.outputTrack) > track.len

(***************************************************************************)
(* C3: the k-th emitted block is aligned to input positions                *)
(* [k*mStepSize, (k+1)*mStepSize): every emitted sample is the sum, in     *)
(* frame order, of one term from each of the mStepsPerWindow consecutive   *)
(* frames whose windows cover its position; frames are resynthesized in    *)
(* the order they were analysed; and the window of the frame resynthesized *)
(* when block k is emitted starts at input position k*mStepSize.           *)
(***************************************************************************)
C3_Alignment ==
    pc # "constructed" =>
        \A r \in DOMAIN wk :
            LET w == wk[r]
                c == w.c
            IN  /\ \A p \in 1 .. Len(w.outputTrack) :
                     /\ Len(w.outputTrack[p]) = c.mStepsPerWindow
                     /\ \A m \in 1 .. c.mStepsPerWindow :
                          LET term == w.outputTrack[p][m]
                          IN  /\ term[1] = (p - 1) \div c.mStepSize + m - 1
                              /\ term[1] < Len(w.frames)
                              /\ term[2] \in 0 .. c.mWindowSize - 1
                              /\ WindowStart(c, term[1]) + term[2] = p - 1
                /\ \A a \in 1 .. Len(w.applied) :
                     /\ w.applied[a].frame = a - 1
                     /\ w.applied[a].emitted =>
                          WindowStart(c, w.applied[a].frame)
                             = w.applied[a].step * c.mStepSize
                /\ \A f \in 1 .. Len(w.frames) :
                     w.frames[f][1] = RefSample(WindowStart(c, f - 1))

C3_Witness ==
    /\ AnyWorker.c.mStepsPerWindow = 4
    /\ Len(AnyWorker.outputTrack) >= 2 * AnyWorker.c.mStepSize
    /\ AnyWorker.outputTrack[3] = <<<<1, 6>>, <<2, 4>>, <<3, 2>>, <<4, 0>>>>

(***************************************************************************)
(* C4: the frames analysed and the samples emitted do not depend on how    *)
(* the input is split into blocks: whatever the blocks, every analysed     *)
(* frame is the window of the input at its position, after m samples have  *)
(* been fed exactly m div mStepSize frames have been analysed, and the     *)
(* finished track is the same sequence of frames and of output samples.    *)
(***************************************************************************)
C4_BlockIndependence ==
    pc # "constructed" =>
        \A r \in DOMAIN wk :
            LET w    == wk[r]
                c    == w.c
                step == c.mStepSize
            IN  /\ \A f \in 1 .. Len(w.frames) : w.frames[f] = RefFrame(c, f - 1)
                /\ pc = "loop" =>
                     /\ Len(w.frames) = samplePos \div step
                     /\ w.outputTrack
                          = RefOutput(c, step * Max(0, samplePos \div step - Latency(c)))
                /\ pc = "done" =>
                     /\ Len(w.frames) = (track.len + step - 1) \div step + Latency(c)
                     /\ w.outputTrack = RefOutput(c, track.len)

C4_Witness ==
    /\ pc = "done"
    /\ track.len = 7
    /\ AnyWorker.c.mStepSize = 2
    /\ AnyWorker.outputTrack = RefOutput(AnyWorker.c, 7)
    /\ Len(AnyWorker.frames) = 4 + Latency(AnyWorker.c)

(***************************************************************************)
(* Gains: ranges                                                           *)
(***************************************************************************)
GainInRange(c, g) == g >= c.mNoiseAttenFactor /\ g <= LogOne

AllInRange(c, gains) == \A b \in Bands(c) : GainInRange(c, gains[b])

ZeroOrOne(c, gains) == \A b \in Bands(c) : gains[b] \in {LogZero, LogOne}

Reducing(c) == c.mNoiseReductionChoice # NRC_ISOLATE_NOISE

C6_IsolateRingZeroOrOne ==
    pc # "constructed" =>
        \A r \in DOMAIN wk :
            LET w == wk[r]
                c == w.c
            IN  ~Reducing(c) =>
                  \A i \in 1 .. c.mHistoryLen : ZeroOrOne(c, w.mQueue[i].mGains)

(***************************************************************************)
(* C6, as the code has it: in Isolate mode every gain held in the ring is  *)
(* 0, 1 or mNoiseAttenFactor (what StartNewTrack filled in), and every     *)
(* gain of a record that has been the center record of a ReduceNoise call  *)
(* and has not been refilled since is 0 or 1.                              *)
(***************************************************************************)
C6_IsolateRingAfterCenter ==
    pc # "constructed" =>
        \A r \in DOMAIN wk :
            LET w == wk[r]
                c == w.c
            IN  ~Reducing(c) =>
                  \A i \in 1 .. c.mHistoryLen :
                     IF i >= c.mCenter + 2 /\ i <= c.mCenter + 1 + Len(w.frames)
                     THEN ZeroOrOne(c, w.mQueue[i].mGains)
                     ELSE \A b \in Bands(c) :
                            w.mQueue[i].mGains[b]
                               \in {LogZero, LogOne, c.mNoiseAttenFactor}

\* frames have been analysed, a record holding one of them still has the fill
\* of StartNewTrack, and a record past the center holds both a 0 and a 1
C6_Witness ==
    LET w == AnyWorker
        c == w.c
    IN  /\ ~Reducing(c)
        /\ c.mNoiseAttenFactor < LogOne
        /\ Len(w.frames) >= 2
        /\ \E i \in 1 .. c.mCenter + 1 :
             /\ w.mQueue[i].mFFT >= 0
             /\ \A b \in Bands(c) : w.mQueue[i].mGains[b] = c.mNoiseAttenFactor
        /\ \E b1, b2 \in Bands(c) :
             /\ w.mQueue[c.mCenter + 2].mGains[b1] = LogOne
             /\ w.mQueue[c.mCenter + 2].mGains[b2] = LogZero

(***************************************************************************)
(* C7: in Isolate mode the factor multiplied into the spectrum of the      *)
(* outgoing frame is exactly 0 or exactly 1 for every band of every        *)
(* resynthesized frame: the frame is an analysed one, its gains are what   *)
(* the center step left (attack and release change no gain, frequency      *)
(* smoothing is not applied).                                              *)
(***************************************************************************)
C7_IsolateMultiplier ==
    pc # "constructed" =>
        \A r \in DOMAIN wk :
            LET w == wk[r]
                c == w.c
            IN  ~Reducing(c) =>
                  /\ \A a \in 1 .. Len(w.applied) :
                       /\ w.applied[a].frame >= 0
                       /\ w.applied[a].gains = w.applied[a].pre
                       /\ \A b \in Bands(c) :
                            /\ w.applied[a].mult[b].off = 0
                            /\ w.applied[a].mult[b].lg \in {LogZero, LogOne}
                  /\ Len(w.frames) > 0 =>
                       /\ w.phases.attack = w.phases.center
                       /\ w.phases.release = w.phases.center

C7_Witness ==
    LET w == AnyWorker
        c == w.c
    IN  /\ ~Reducing(c)
        /\ c.mNoiseAttenFactor < LogOne
        /\ c.mFreqSmoothingBins > 0
        /\ c.nAttackBlocks > 1
        /\ Len(w.applied) >= 2
        /\ \E a \in 1 .. Len(w.applied) : \E b1, b2 \in Bands(c) :
             /\ w.applied[a].mult[b1].lg = LogOne
             /\ w.applied[a].mult[b2].lg = LogZero
             /\ b1 >= c.mBinLow /\ b1 < c.mBinHigh
             /\ b2 >= c.mBinLow /\ b2 < c.mBinHigh

(***************************************************************************)
(* C8: attack envelope.  In Reduce and Residue modes, for every band, the  *)
(* gains before frequency smoothing of two frames resynthesized one after  *)
(* the other satisfy  gain[t] >= max(mNoiseAttenFactor, gain[t+1] *        *)
(* mOneBlockAttack); and mHistoryLen >= mCenter + nAttackBlocks, so no     *)
(* frame leaves the ring owing a rise to a later center frame.             *)
(***************************************************************************)
C8_AttackEnvelope ==
    pc # "constructed" =>
        \A r \in DOMAIN wk :
            LET w == wk[r]
                c == w.c
            IN  Reducing(c) =>
                  /\ c.mHistoryLen >= c.mCenter + c.nAttackBlocks
                  /\ \A a \in 1 .. Len(w.applied) - 1 : \A b \in Bands(c) :
                       w.applied[a].pre[b] >=
                          Max(c.mNoiseAttenFactor,
                              GainTimes(w.applied[a + 1].pre[b], c.mOneBlockAttack))

\* a band climbs to 1 over three consecutive frames, one attack factor per frame
C8_Witness ==
    LET w == AnyWorker
        c == w.c
    IN  /\ Reducing(c)
        /\ c.nAttackBlocks = 3
        /\ c.mOneBlockAttack < LogOne
        /\ \E a \in 1 .. Len(w.applied) - 2 : \E b \in Bands(c) :
             /\ w.applied[a + 2].pre[b] = LogOne
             /\ w.applied[a + 1].pre[b] = c.mOneBlockAttack
             /\ w.applied[a].pre[b] = 2 * c.mOneBlockAttack
             /\ w.applied[a].pre[b] > c.mNoiseAttenFactor

(***************************************************************************)
(* C9: release envelope.  In Reduce and Residue modes, for every band, the *)
(* gains before frequency smoothing of two frames resynthesized one after  *)
(* the other satisfy  gain[t+1] >= max(mNoiseAttenFactor, gain[t] *        *)
(* mOneBlockRelease), although each ReduceNoise call carries the release   *)
(* one slot only, from mQueue[mCenter] to mQueue[mCenter - 1].             *)
(***************************************************************************)
C9_ReleaseEnvelope ==
    pc # "constructed" =>
        \A r \in DOMAIN wk :
            LET w == wk[r]
                c == w.c
            IN  Reducing(c) =>
                  /\ \A a \in 1 .. Len(w.applied) - 1 : \A b \in Bands(c) :
                       w.applied[a + 1].pre[b] >=
                          Max(c.mNoiseAttenFactor,
                              GainTimes(w.applied[a].pre[b], c.mOneBlockRelease))
                  /\ Len(w.frames) > 0 =>
                       \A i \in 1 .. c.mHistoryLen : \A b \in Bands(c) :
                          i # c.mCenter =>
                             w.phases.release[i][b] = w.phases.attack[i][b]

\* a band falls from 1 over three consecutive frames, one release factor per frame
C9_Witness ==
    LET w == AnyWorker
        c == w.c
    IN  /\ Reducing(c)
        /\ c.nReleaseBlocks = 3
        /\ c.mOneBlockRelease < LogOne
        /\ \E a \in 1 .. Len(w.applied) - 2 : \E b \in Bands(c) :
             /\ w.applied[a].pre[b] = LogOne
             /\ w.applied[a + 1].pre[b] = c.mOneBlockRelease
             /\ w.applied[a + 2].pre[b] = 2 * c.mOneBlockRelease
             /\ w.applied[a + 2].pre[b] > c.mNoiseAttenFactor

(***************************************************************************)
(* Sums and differences of two factors exp(lg) + off                       *)
(***************************************************************************)
\* m1 + m2 = 1, for offsets that sum to -1: exp(lg1) + exp(lg2) = 2, and no
\* exponential of a gain exceeds 1
SumIsOne(m1, m2) ==
    /\ m1.off + m2.off = 0 - 1
    /\ m1.lg = LogOne
    /\ m2.lg = LogOne

\* m1 - m2 = 1, for offsets that differ by 1: exp(lg1) = exp(lg2)
DifferenceIsOne(m1, m2) ==
    /\ m1.off - m2.off = 1
    /\ m1.lg = m2.lg

\* the two workers resynthesized the same frames at the same steps
SameFrames(w1, w2) ==
    /\ Len(w1.applied) = Len(w2.applied)
    /\ \A a \in 1 .. Len(w1.applied) :
         /\ w1.applied[a].frame = w2.applied[a].frame
         /\ w1.applied[a].step = w2.applied[a].step
         /\ w1.applied[a].emitted = w2.applied[a].emitted
    /\ w1.outputTrack = w2.outputTrack

(***************************************************************************)
(* C10: for identical input, statistics and configuration, for every       *)
(* resynthesized frame and every band, the spectral multiplier applied in  *)
(* Residue mode plus the multiplier applied in Reduce mode equals 1.       *)
(***************************************************************************)
C10_ResiduePlusReduce ==
    LET red == wk[NRC_REDUCE_NOISE]
        res == wk[NRC_LEAVE_RESIDUE]
    IN  /\ SameFrames(red, res)
        /\ \A a \in 1 .. Len(res.applied) : \A b \in Bands(res.c) :
             SumIsOne(res.applied[a].mult[b], red.applied[a].mult[b])

(***************************************************************************)
(* C10, as the code has it: the Residue multiplier is gain - 1, the        *)
(* negative of what Reduce removes, so for every resynthesized frame and   *)
(* every band the Reduce multiplier minus the Residue multiplier equals 1: *)
(* the Reduce output minus the Residue output is the input.                *)
(***************************************************************************)
C10_ReduceMinusResidue ==
    LET red == wk[NRC_REDUCE_NOISE]
        res == wk[NRC_LEAVE_RESIDUE]
    IN  /\ SameFrames(red, res)
        /\ \A a \in 1 .. Len(res.applied) : \A b \in Bands(res.c) :
             /\ res.applied[a].gains[b] = red.applied[a].gains[b]
             /\ DifferenceIsOne(red.applied[a].mult[b], res.applied[a].mult[b])

\* both workers resynthesized a frame with a band attenuated and a band kept
C10_Witness ==
    LET red == wk[NRC_REDUCE_NOISE]
        res == wk[NRC_LEAVE_RESIDUE]
    IN  /\ pc = "done"
        /\ Len(res.applied) >= 3
        /\ Len(res.outputTrack) = track.len
        /\ \E a \in 1 .. Len(res.applied) : \E b1, b2 \in Bands(res.c) :
             /\ res.applied[a].emitted
             /\ res.applied[a].mult[b1] = [lg |-> res.c.mNoiseAttenFactor, off |-> 0 - 1]
             /\ red.applied[a].mult[b1] = [lg |-> res.c.mNoiseAttenFactor, off |-> 0]
             /\ res.c.mNoiseAttenFactor < LogOne
             /\ res.applied[a].mult[b2] = [lg |-> LogOne, off |-> 0 - 1]
             /\ red.applied[a].mult[b2] = [lg |-> LogOne, off |-> 0]

(***************************************************************************)
(* C11: Isolate round trip.  For identical input, statistics and           *)
(* configuration, for every resynthesized frame and every band, the gain   *)
(* applied in Reduce mode plus the gain applied in Isolate mode equals 1.  *)
(***************************************************************************)
\* exp(g1) + exp(g2) = 1 where one of the two gains is exactly 0 or exactly 1
GainsSumToOne(g1, g2) ==
    \/ g1 = LogZero /\ g2 = LogOne
    \/ g1 = LogOne /\ g2 = LogZero

C11_ReducePlusIsolate ==
    LET red == wk[NRC_REDUCE_NOISE]
        iso == wk[NRC_ISOLATE_NOISE]
    IN  /\ SameFrames(red, iso)
        /\ \A a \in 1 .. Len(iso.applied) : \A b \in Bands(iso.c) :
             GainsSumToOne(iso.applied[a].mult[b].lg, red.applied[a].mult[b].lg)

(***************************************************************************)
(* C11, as the code has it: both runs resynthesize the same frames and     *)
(* classify alike.  Where the Isolate gain is 0 the Reduce gain before     *)
(* frequency smoothing is 1; where the Isolate gain is 1 (noise) the       *)
(* Reduce gain is at least mNoiseAttenFactor > 0, before and after         *)
(* smoothing, so there the two gains sum to more than 1: Reduce attenuates *)
(* noise, it does not remove it.                                           *)
(***************************************************************************)
C11_ReduceAttenuatesIsolated ==
    LET red == wk[NRC_REDUCE_NOISE]
        iso == wk[NRC_ISOLATE_NOISE]
    IN  /\ SameFrames(red, iso)
        /\ \A a \in 1 .. Len(iso.applied) : \A b \in Bands(iso.c) :
             LET gi == iso.applied[a].mult[b].lg
             IN  /\ gi \in {LogZero, LogOne}
                 /\ iso.applied[a].mult[b].off = 0
                 /\ red.applied[a].mult[b].off = 0
                 /\ gi = LogZero => red.applied[a].pre[b] = LogOne
                 /\ gi = LogOne =>
                      /\ GainInRange(red.c, red.applied[a].pre[b])
                      /\ GainInRange(red.c, red.applied[a].mult[b].lg)

\* a frame went out of both workers with a band kept by Isolate and attenuated,
\* not removed, by Reduce, and a band removed by Isolate and kept by Reduce
C11_Witness ==
    LET red == wk[NRC_REDUCE_NOISE]
        iso == wk[NRC_ISOLATE_NOISE]
    IN  /\ pc = "done"
        /\ red.c.mNoiseAttenFactor < LogOne
        /\ \E a \in 1 .. Len(iso.applied) : \E b1, b2 \in Bands(iso.c) :
             /\ iso.applied[a].emitted
             /\ iso.applied[a].mult[b1].lg = LogOne
             /\ red.applied[a].mult[b1].lg = red.c.mNoiseAttenFactor
             /\ iso.applied[a].mult[b2].lg = LogZero
             /\ red.applied[a].mult[b2].lg = LogOne
             /\ b2 >= iso.c.mBinLow /\ b2 < iso.c.mBinHigh

(***************************************************************************)
(* C12: band-restricted processing.  For every band outside [mBinLow,      *)
(* mBinHigh) the gain applied at resynthesis is exactly 1 in Reduce mode   *)
(* and exactly 0 in Isolate mode, for every resynthesized frame and every  *)
(* value of mFreqSmoothingBins, attack and release.                        *)
(***************************************************************************)
OutOfRange(c, b) == b < c.mBinLow \/ b >= c.mBinHigh

C12_OutOfRangeUntouched ==
    pc # "constructed" =>
        \A r \in DOMAIN wk :
            LET w == wk[r]
                c == w.c
            IN  \A a \in 1 .. Len(w.applied) : \A b \in Bands(c) :
                  OutOfRange(c, b) =>
                     /\ c.mNoiseReductionChoice = NRC_REDUCE_NOISE =>
                          w.applied[a].mult[b] = [lg |-> LogOne, off |-> 0]
                     /\ c.mNoiseReductionChoice = NRC_ISOLATE_NOISE =>
                          w.applied[a].mult[b] = [lg |-> LogZero, off |-> 0]

(***************************************************************************)
(* C12, as the code has it: for every band outside [mBinLow, mBinHigh) the *)
(* gain before frequency smoothing is exactly 1 in Reduce mode, and the    *)
(* gain applied is the geometric mean ApplyFreqSmoothing takes over the    *)
(* bands within mFreqSmoothingBins of it, in range or not: it is exactly 1 *)
(* when mFreqSmoothingBins = 0 and whenever no band within that distance   *)
(* is attenuated.  In Isolate mode the gain applied is exactly 0.          *)
(***************************************************************************)
C12_OutOfRangeBeforeSmoothing ==
    pc # "constructed" =>
        \A r \in DOMAIN wk :
            LET w == wk[r]
                c == w.c
            IN  \A a \in 1 .. Len(w.applied) : \A b \in Bands(c) :
                  OutOfRange(c, b) =>
                     /\ c.mNoiseReductionChoice = NRC_REDUCE_NOISE =>
                          /\ w.applied[a].pre[b] = LogOne
                          /\ w.applied[a].mult[b].off = 0
                          /\ w.applied[a].mult[b].lg
                               = ApplyFreqSmoothing(c, w.applied[a].pre)[b]
                          /\ (\A j \in Bands(c) :
                                (j >= b - c.mFreqSmoothingBins
                                   /\ j <= b + c.mFreqSmoothingBins)
                                  => w.applied[a].pre[j] = LogOne)
                               => w.applied[a].mult[b].lg = LogOne
                     /\ c.mNoiseReductionChoice = NRC_ISOLATE_NOISE =>
                          w.applied[a].mult[b] = [lg |-> LogZero, off |-> 0]

\* Reduce with smoothing: a band outside the range went out attenuated, another
\* one, farther from the range, went out at exactly 1
C12_Witness ==
    LET w == AnyWorker
        c == w.c
    IN  /\ c.mNoiseReductionChoice = NRC_REDUCE_NOISE
        /\ c.mFreqSmoothingBins > 0
        /\ c.mBinLow > 0
        /\ \E a \in 1 .. Len(w.applied) : \E b1, b2 \in Bands(c) :
             /\ OutOfRange(c, b1) /\ OutOfRange(c, b2)
             /\ w.applied[a].emitted
             /\ w.applied[a].pre[b1] = LogOne
             /\ w.applied[a].mult[b1].lg < LogOne
             /\ w.applied[a].mult[b2].lg = LogOne

(***************************************************************************)
(* Positions of a Process call                                             *)
(***************************************************************************)
\* Process is running, between its entry checks and its return
InProcess ==
    pc \in {"track", "constructed", "loop", "samples", "flush", "done", "cancelled", "after"}

\* Process has returned true or false and nothing happened since
Returned == pc = "idle" /\ effect.result \in {"true", "false"}

(***************************************************************************)
(* C13: after a Process call in profiling mode whose pass succeeded,       *)
(* mDoProfile is false and the statistics object is kept; after one whose  *)
(* pass failed (rate mismatch, empty profile, cancellation) the statistics *)
(* object is gone and mDoProfile is still true.  A Process call in         *)
(* reducing mode changes neither mDoProfile nor the statistics, at any     *)
(* point of the call and after it.  A call that finds no selected wave     *)
(* track returns false before any pass and changes nothing.                *)
(***************************************************************************)
C13_TwoPassHandoff ==
    /\ (Returned /\ effect.entry.mDoProfile /\ Len(effect.project) > 0) =>
          /\ effect.result = "true" => ~settings.mDoProfile /\ effect.hasStatistics
          /\ effect.result = "false" => settings.mDoProfile /\ ~effect.hasStatistics
    /\ ((Returned \/ InProcess) /\ ~effect.entry.mDoProfile /\ effect.entry.hasStatistics) =>
          /\ ~settings.mDoProfile
          /\ effect.hasStatistics
          /\ stats = effect.entry.stats
    /\ (Returned /\ Len(effect.project) = 0) =>
          /\ settings.mDoProfile = effect.entry.mDoProfile
          /\ effect.hasStatistics = effect.entry.hasStatistics
          /\ stats = effect.entry.stats

\* a second profiling pass failed after the first had left statistics, and
\* they are gone
C13_Witness ==
    /\ Returned
    /\ effect.runs = 2
    /\ effect.entry.mDoProfile
    /\ effect.entry.hasStatistics
    /\ effect.result = "false"
    /\ Len(effect.project) > 0
    /\ ~effect.hasStatistics

(***************************************************************************)
(* C14: when Process is called in reducing mode (mDoProfile false) and     *)
(* there is no statistics object, it returns failure and processes no      *)
(* track.                                                                  *)
(***************************************************************************)
C14_ReduceWithoutProfileFails ==
    effect.nullRead =>
        /\ pc = "idle"
        /\ effect.result = "false"
        /\ effect.started = {}

\* what the code guarantees of such a call: nothing; it has read the window
\* size through the null mStatistics when it is in any of these states
C14_NullReadReached ==
    /\ effect.nullRead
    /\ ~effect.entry.mDoProfile
    /\ ~effect.entry.hasStatistics
    /\ Len(effect.project) > 0
    /\ pc = "crashed"

(***************************************************************************)
(* C15: a Process call in reducing mode whose statistics have another      *)
(* window size than the configured one returns failure without             *)
(* constructing the Worker or processing a track.  When the window size    *)
(* agrees and only the window types differ, the call warns, constructs the *)
(* Worker and processes the tracks as usual: it fails only if a track has  *)
(* another rate or the user cancels.  The warning is shown in no other     *)
(* case.                                                                   *)
(***************************************************************************)
ReducingWithProfile ==
    /\ Returned \/ InProcess
    /\ Len(effect.project) > 0
    /\ ~effect.entry.mDoProfile
    /\ effect.entry.hasStatistics

C15_ProfileMismatch ==
    ReducingWithProfile =>
        IF effect.entry.stats.mWindowSize # WindowSize(settings)
        THEN /\ Returned
             /\ effect.result = "false"
             /\ ~effect.workerBuilt
             /\ effect.started = {}
             /\ ~effect.warned
        ELSE /\ effect.workerBuilt
             /\ effect.warned = (effect.entry.stats.mWindowTypes # settings.mWindowTypes)
             /\ (Returned /\ effect.result = "false") =>
                   \/ effect.cancelled
                   \/ /\ effect.count <= Len(effect.project)
                      /\ effect.project[effect.count].rate # effect.entry.stats.mRate

\* a reduction with a profile of other window types went through, warned,
\* and replaced a track
C15_Witness ==
    /\ ReducingWithProfile
    /\ Returned
    /\ effect.entry.stats.mWindowSize = WindowSize(settings)
    /\ effect.entry.stats.mWindowTypes # settings.mWindowTypes
    /\ effect.warned
    /\ effect.result = "true"
    /\ effect.committed # {}

(***************************************************************************)
(* C16: Worker::Process passes and processes only tracks whose rate is the *)
(* rate of the statistics.  When it reaches a selected track of another    *)
(* rate it returns false at once: neither that track nor a later one is    *)
(* processed, Process returns failure, and in profiling mode the           *)
(* statistics, with what earlier tracks contributed, are discarded and     *)
(* mDoProfile stays set.                                                   *)
(***************************************************************************)
C16_RateMismatch ==
    (effect.workerBuilt /\ (InProcess \/ Returned)) =>
        LET rate == AnyWorker.c.mSampleRate
            n    == Len(effect.project)
            k    == effect.count
        IN  /\ rate = stats.mRate \/ ~effect.hasStatistics
            /\ \A j \in 1 .. n :
                  (j < k \/ j \in effect.started) => effect.project[j].rate = rate
            /\ (k <= n /\ effect.project[k].rate # rate /\ pc # "track") =>
                  /\ pc = "after" \/ Returned
                  /\ ~effect.bGoodResult
                  /\ effect.started \subseteq 1 .. k - 1
                  /\ Returned =>
                        /\ effect.result = "false"
                        /\ effect.committed = {}
                        /\ effect.entry.mDoProfile =>
                              settings.mDoProfile /\ ~effect.hasStatistics

\* a profiling pass gathered frames from its first track, met another rate at
\* its second, and lost the statistics
C16_Witness ==
    /\ Returned
    /\ effect.entry.mDoProfile
    /\ Len(effect.project) = 2
    /\ effect.count = 2
    /\ effect.project[2].rate # effect.project[1].rate
    /\ Len(effect.contributed) = 1
    /\ effect.contributed[1].frames > 0
    /\ effect.result = "false"
    /\ ~effect.hasStatistics

(***************************************************************************)
(* C17: in profiling mode a track of n selected samples contributes        *)
(* exactly n \div mStepSize frames and nothing is flushed; when all tracks  *)
(* are done the pass fails if and only if mTotalWindows is 0, that is, if  *)
(* every track that was processed had fewer than mStepSize selected        *)
(* samples or no track overlapped the selection; and after that failure    *)
(* the statistics are discarded.                                           *)
(***************************************************************************)
RECURSIVE FramesOf(_)
FramesOf(contributed) ==
    IF contributed = << >> THEN 0
    ELSE contributed[1].frames + FramesOf(Tail(contributed))

Profiling == (InProcess \/ Returned) /\ effect.entry.mDoProfile /\ effect.workerBuilt

\* Worker::Process got through all its tracks
AllTracksDone == (pc = "after" \/ Returned) /\ effect.count > Len(effect.project)

C17_EmptyProfile ==
    Profiling =>
        /\ \A i \in 1 .. Len(effect.contributed) :
              effect.contributed[i].frames
                  = effect.contributed[i].len \div effect.contributed[i].step
        /\ pc # "flush"
        /\ pc = "samples" => caller = "feed"
        /\ pc = "after" => stats.mTotalWindows = FramesOf(effect.contributed)
        /\ AllTracksDone =>
              LET empty == \A i \in 1 .. Len(effect.contributed) :
                              effect.contributed[i].len < effect.contributed[i].step
              IN  /\ pc = "after" => (~effect.bGoodResult <=> stats.mTotalWindows = 0)
                  /\ ~effect.bGoodResult <=> empty
                  /\ Returned => (effect.result = "false" <=> empty)
                  /\ (Returned /\ empty) => ~effect.hasStatistics /\ settings.mDoProfile

\* a profiling pass over tracks shorter than a step, one of them not empty,
\* failed and left no statistics
C17_Witness ==
    /\ Profiling
    /\ Returned
    /\ effect.count > Len(effect.project)
    /\ \E i \in 1 .. Len(effect.contributed) :
          effect.contributed[i].len > 0 /\ effect.contributed[i].frames = 0
    /\ effect.result = "false"
    /\ ~effect.hasStatistics

(***************************************************************************)
(* C18: ProcessOne asks TrackProgress once after every block it has fed,   *)
(* and never otherwise.  When the answer is to cancel, no further block of *)
(* the track is read, FinishTrack and FinishTrackStatistics are not        *)
(* called, the range of the track is not replaced, no later track is       *)
(* started, and Worker::Process and Process return failure.                *)
(***************************************************************************)
C18_Cancellation ==
    (effect.workerBuilt /\ (InProcess \/ Returned)) =>
        /\ effect.polls = IF pc = "samples" /\ caller = "feed"
                          THEN effect.blocks - 1
                          ELSE effect.blocks
        /\ effect.cancelled =>
              /\ pc \in {"cancelled", "after"} \/ Returned
              /\ effect.count \in effect.started
              /\ effect.count \notin effect.finished
              /\ effect.count \notin effect.replaced
              /\ effect.started \subseteq 1 .. effect.count
              /\ pc # "cancelled" => ~effect.bGoodResult
              /\ Returned => effect.result = "false" /\ effect.committed = {}

\* a reduction was cancelled after the first of the three blocks of its first
\* track, with a second track waiting
C18_Witness ==
    /\ Returned
    /\ ~effect.entry.mDoProfile
    /\ effect.cancelled
    /\ Len(effect.project) = 2
    /\ effect.count = 1
    /\ effect.project[1].len = 9
    /\ effect.project[2].selected
    /\ effect.project[2].rate = effect.project[1].rate
    /\ effect.blocks = 1
    /\ effect.polls = 1
    /\ effect.result = "false"

(***************************************************************************)
(* C19: in a profiling pass, whenever the tracks so far have been          *)
(* processed to completion, mTotalWindows is the number of frames analysed *)
(* over all of them, mSums and mTrackWindows are 0, and for every band     *)
(* mMeans[k] * mTotalWindows is the sum of the power of band k over all    *)
(* those frames, in exact arithmetic: the statistics are those of one      *)
(* track holding all the frames.                                           *)
(***************************************************************************)
RECURSIVE SumPower(_, _)
SumPower(spectra, k) ==
    IF spectra = << >> THEN 0
    ELSE spectra[1][k] + SumPower(Tail(spectra), k)

\* the statistics of a single track whose frames had the given spectra
SingleTrack(fresh, spectra) ==
    FinishTrackStatistics(
        [fresh EXCEPT !.mTrackWindows = Len(spectra),
                      !.mSums = [k \in DOMAIN fresh.mSums |-> SumPower(spectra, k)]])

C19_FoldingLaw ==
    (Profiling /\ pc \in {"done", "track", "after"} /\ ~effect.cancelled) =>
        /\ stats.mTotalWindows = Len(effect.spectra)
        /\ stats.mTrackWindows = 0
        /\ \A k \in DOMAIN stats.mSums : stats.mSums[k] = 0
        /\ \A k \in DOMAIN stats.mMeans :
              stats.mMeans[k].num * stats.mTotalWindows
                  = stats.mMeans[k].den * SumPower(effect.spectra, k)
        /\ LET one == SingleTrack(NewStatistics(settings, stats.mRate), effect.spectra)
           IN  /\ stats.mMeans = one.mMeans
               /\ stats.mTotalWindows = one.mTotalWindows
               /\ stats.mSums = one.mSums

\* two tracks of one frame each, a tone and silence: the mean of the tone's
\* band is 9/2
C19_Witness ==
    /\ Profiling
    /\ pc = "after"
    /\ effect.bGoodResult
    /\ Len(effect.contributed) = 2
    /\ effect.contributed[1].frames = 1
    /\ effect.contributed[2].frames = 1
    /\ \E k \in DOMAIN stats.mMeans : stats.mMeans[k] = [num |-> 9, den |-> 2]

(***************************************************************************)
(* C20: the dialog's transfer accepts a configuration if and only if its   *)
(* steps per window are at least the minimum of its window types (2, 2, 4, *)
(* 4 for RectHann, HannRect, HannHann, BlackmanHann), at most its window   *)
(* size, and at most 4 when the method is Median, for all window sizes 8   *)
(* to 16384 and steps 2 to 64 of the choice controls; an accepted          *)
(* configuration has a step size of at least 1 that times the steps per    *)
(* window is the window size, and only accepted configurations become the  *)
(* settings of the effect.                                                 *)
(***************************************************************************)
MinStepsOf(windowTypes) ==
    CASE windowTypes = WT_RECTANGULAR_HANN -> 2
      [] windowTypes = WT_HANN_RECTANGULAR -> 2
      [] windowTypes = WT_HANN_HANN        -> 4
      [] windowTypes = WT_BLACKMAN_HANN    -> 4

Acceptable(t) ==
    /\ StepsPerWindow(t) >= MinStepsOf(t.mWindowTypes)
    /\ StepsPerWindow(t) <= WindowSize(t)
    /\ t.mMethod = DM_MEDIAN => StepsPerWindow(t) <= 4

C20_Validation ==
    effect.transfer # "none" =>
        LET t == effect.mTempSettings
            W == WindowSize(t)
            S == StepsPerWindow(t)
        IN  /\ W \in { Pow2(e) : e \in 3 .. 14 }
            /\ S \in { Pow2(e) : e \in 1 .. 6 }
            /\ effect.transfer = "valid" <=> Acceptable(t)
            /\ effect.transfer = "valid" =>
                  /\ W \div S >= 1
                  /\ (W \div S) * S = W
            /\ pc = "ready" =>
                  /\ effect.transfer = "valid"
                  /\ [settings EXCEPT !.mDoProfile = FALSE] = [t EXCEPT !.mDoProfile = FALSE]

\* 16 steps per window of 8 samples, enough for the window types and not the
\* Median method: refused for the window size alone
C20_Witness ==
    /\ pc = "dialog"
    /\ effect.transfer = "invalid"
    /\ WindowSize(effect.mTempSettings) = 8
    /\ StepsPerWindow(effect.mTempSettings) = 16
    /\ effect.mTempSettings.mWindowTypes = WT_BLACKMAN_HANN
    /\ effect.mTempSettings.mMethod = DM_OLD_METHOD

(***************************************************************************)
(* C21: with the old method a band is classified as noise if and only if   *)
(* the minimum of its power over the slots of the ring is at most          *)
(* mSensitivityFactor * mNoiseThreshold[band].  As stated: over all        *)
(* mHistoryLen slots.  As the code has it: over the mNWindowsToExamine     *)
(* newest slots, which are all of them only when mCenter + nAttackBlocks   *)
(* does not exceed mNWindowsToExamine.                                     *)
(***************************************************************************)
RECURSIVE MinOver(_, _, _)
MinOver(powers, band, n) ==
    IF n = 1 THEN powers[1][band]
    ELSE Min(powers[n][band], MinOver(powers, band, n - 1))

\* noise[band] is  (minimum over the n newest slots) <= factor * threshold
OldRule(w, n) ==
    \A b \in Bands(w.c) :
        w.phases.noise[b] <=>
            MinOver(w.phases.powers, b, n) * w.c.mSensitivityFactor.den
                <= w.c.mSensitivityFactor.num * stats.mNoiseThreshold[b]

C21_OldMethodWholeRing ==
    \A r \in DOMAIN wk :
        (wk[r].c.mMethod = DM_OLD_METHOD /\ wk[r].phases # << >>) =>
            OldRule(wk[r], wk[r].c.mHistoryLen)

C21_OldMethodExamined ==
    \A r \in DOMAIN wk :
        (wk[r].c.mMethod = DM_OLD_METHOD /\ wk[r].phases # << >>) =>
            /\ OldRule(wk[r], wk[r].c.mNWindowsToExamine)
            /\ wk[r].c.mHistoryLen = wk[r].c.mNWindowsToExamine =>
                  OldRule(wk[r], wk[r].c.mHistoryLen)

\* a ring of four with two windows examined: a band loud in the two newest
\* slots and silent in an older one is not noise
C21_Witness ==
    LET w == AnyWorker
        c == w.c
    IN  /\ c.mMethod = DM_OLD_METHOD
        /\ w.phases # << >>
        /\ c.mNWindowsToExamine = 2
        /\ c.mHistoryLen = 4
        /\ \E b \in Bands(c) :
              /\ ~w.phases.noise[b]
              /\ MinOver(w.phases.powers, b, c.mNWindowsToExamine) > stats.mNoiseThreshold[b]
              /\ MinOver(w.phases.powers, b, c.mHistoryLen) <= stats.mNoiseThreshold[b]

(***************************************************************************)
(* C22: for every combination of non-negative powers in the                *)
(* mNWindowsToExamine newest slots, the second-greatest method, and the    *)
(* median method with three windows, classify a band as noise if and only  *)
(* if the second largest of those powers, duplicates counted, is at most   *)
(* mNewSensitivity * mMeans[band]; the median method with five windows if  *)
(* and only if the third largest, the median of the five, is.              *)
(***************************************************************************)
\* the k-th largest of the values xs[1 .. n], duplicates counted
KthLargest(xs, n, k) ==
    CHOOSE v \in { xs[i] : i \in 1 .. n } :
        /\ Cardinality({ i \in 1 .. n : xs[i] > v }) < k
        /\ Cardinality({ i \in 1 .. n : xs[i] >= v }) >= k

\* which of the powers examined the method compares with the threshold
RankOf(c) == IF c.mMethod = DM_MEDIAN /\ c.mNWindowsToExamine = 5 THEN 3 ELSE 2

\* the verdict for band b: the power of that rank is at most
\* mNewSensitivity * mMeans[b]
NewRule(w, b) ==
    KthLargest([i \in 1 .. w.c.mNWindowsToExamine |-> w.phases.powers[i][b]],
               w.c.mNWindowsToExamine, RankOf(w.c))
        * 1000 * stats.mMeans[b].den
      <= w.c.mNewSensitivity * stats.mMeans[b].num

C22_NewMethods ==
    \A x \in DOMAIN wk :
        (wk[x].phases # << >> /\ wk[x].c.mMethod \in {DM_SECOND_GREATEST, DM_MEDIAN}) =>
            /\ wk[x].c.mMethod = DM_MEDIAN => wk[x].c.mNWindowsToExamine \in {3, 5}
            /\ \A b \in Bands(wk[x].c) : wk[x].phases.noise[b] <=> NewRule(wk[x], b)

\* five windows, the two greatest powers equal and above the threshold, the
\* third below it: the median method says noise, the second greatest says not
C22_Witness ==
    /\ pc = "reduced"
    /\ \E x \in DOMAIN wk : \E b \in Bands(wk[x].c) :
          LET w  == wk[x]
              xs == [i \in 1 .. 5 |-> w.phases.powers[i][b]]
          IN  /\ w.c.mNWindowsToExamine = 5
              /\ w.c.mMethod = DM_MEDIAN
              /\ KthLargest(xs, 5, 1) = KthLargest(xs, 5, 2)
              /\ KthLargest(xs, 5, 3) < KthLargest(xs, 5, 2)
              /\ w.phases.noise[b]
              /\ ~(KthLargest(xs, 5, 2) * 1000 * stats.mMeans[b].den
                     <= w.c.mNewSensitivity * stats.mMeans[b].num)

(***************************************************************************)
(* C23: for one ring and one profile, with the second-greatest or the      *)
(* median method, a band that is noise at one mNewSensitivity is noise at  *)
(* every greater one.                                                      *)
(***************************************************************************)
C23_SensitivityOrdering ==
    \A x, y \in DOMAIN wk :
        ( /\ wk[x].phases # << >>
          /\ wk[y].phases # << >>
          /\ wk[x].c.mMethod \in {DM_SECOND_GREATEST, DM_MEDIAN}
          /\ wk[x].c.mMethod = wk[y].c.mMethod
          /\ wk[x].phases.powers = wk[y].phases.powers
          /\ wk[x].c.mNewSensitivity <= wk[y].c.mNewSensitivity ) =>
            \A b \in Bands(wk[x].c) : wk[x].phases.noise[b] => wk[y].phases.noise[b]

\* a band that is not noise at the least sensitivity and noise at the
\* greatest, and one that is noise at none
C23_Witness ==
    /\ pc = "reduced"
    /\ \E x, y \in DOMAIN wk : \E b1, b2 \in Bands(wk[x].c) :
          /\ wk[x].c.mNewSensitivity < wk[y].c.mNewSensitivity
          /\ ~wk[x].phases.noise[b1]
          /\ wk[y].phases.noise[b1]
          /\ ~wk[x].phases.noise[b2]
          /\ ~wk[y].phases.noise[b2]

(***************************************************************************)
(* C24: the ring always holds history_len distinct records.  When the      *)
(* profiler, the classifier or the gain builder runs for frame f, slot 0   *)
(* holds frame f and slot i holds frame f - i for every i up to            *)
(* min(f, history_len - 1); the slots beyond hold no frame yet.  The       *)
(* rotation that follows moves every record one slot on and the record of  *)
(* the last slot to slot 0: the same records, cyclically permuted.         *)
(***************************************************************************)
RingAsExpected(w) ==
    LET H == w.c.mHistoryLen
        f == Len(w.frames) - 1
    IN  /\ DOMAIN w.mQueue = 1 .. H
        /\ {w.mQueue[i].id : i \in 1 .. H} = 0 .. H - 1
        /\ IF w.ring = << >>
           THEN \A i \in 1 .. H : w.mQueue[i].mFFT = 0 - 1
           ELSE /\ DOMAIN w.ring = 1 .. H
                /\ \A i \in 0 .. H - 1 :
                      w.ring[i + 1].mFFT = IF i <= f THEN f - i ELSE 0 - 1
                /\ \A i \in 1 .. H :
                      /\ w.mQueue[(i % H) + 1].id = w.ring[i].id
                      /\ w.mQueue[(i % H) + 1].mFFT = w.ring[i].mFFT

C24_RingInvariant ==
    effect.workerBuilt /\ pc \notin {"idle", "dialog", "ready", "crashed"}
        => \A r \in DOMAIN wk : RingAsExpected(wk[r])

\* reached: a reducing Worker analysed more frames than the ring has slots,
\* so that its last slot holds a frame and every record was recycled
C24_Witness ==
    /\ C24_RingInvariant
    /\ effect.workerBuilt /\ pc = "samples"
    /\ \E r \in DOMAIN wk :
          /\ ~wk[r].c.mDoProfile
          /\ Len(wk[r].frames) > wk[r].c.mHistoryLen + 1
          /\ wk[r].ring[wk[r].c.mHistoryLen].mFFT = Len(wk[r].frames) - wk[r].c.mHistoryLen

(***************************************************************************)
(* C25: for every window type and every number of steps per window that    *)
(* Validate accepts, a sample that has gone through all the frames holding *)
(* it has collected analysis window times synthesis window, the multiplier *)
(* 1 / (productConstantTerm * mStepsPerWindow) included, summing to        *)
(* exactly 1, at every position within the step.                           *)
(***************************************************************************)
C25_OverlapAddUnity ==
    pc = "added" =>
        \A j \in DOMAIN wk.weight :
            wk.weight[j].num =
                ZScale(wk.weight[j].den, ZUnit(0, WindowSize(settings) \div 2))

\* reached: Blackman and Hann windows, sixteen steps of one sample each
C25_Witness ==
    /\ pc = "added"
    /\ settings.mWindowTypes = WT_BLACKMAN_HANN
    /\ StepsPerWindow(settings) = 16
    /\ samplePos = 16
    /\ wk.weight[1].num[0] = wk.weight[1].den
    /\ wk.weight[1].den > 1

(***************************************************************************)
(* C26: each time the input buffer becomes full and a frame is handed to   *)
(* analysis, the buffer is then slid left by mStepSize and mInWavePos is   *)
(* mWindowSize - mStepSize.  As stated, the last mStepSize entries are     *)
(* zero-filled; in the code they keep the values they had in the frame.    *)
(***************************************************************************)
\* the Worker of run r has just analysed a frame
Analysed(r) ==
    /\ r \in DOMAIN wk /\ r \in DOMAIN wk'
    /\ Len(wk'[r].frames) = Len(wk[r].frames) + 1

\* w's buffer is its last frame moved left by mStepSize over the entries kept
Slid(w) ==
    LET W    == w.c.mWindowSize
        step == w.c.mStepSize
        fr   == w.frames[Len(w.frames)]
    IN  /\ w.mInWavePos = W - step
        /\ \A i \in 1 .. W - step : w.mInWaveBuffer[i] = fr[i + step]

\* as stated: the tail is zero-filled
C26_SlideZeroFills ==
    [][\A r \in {NRC_REDUCE_NOISE, NRC_ISOLATE_NOISE, NRC_LEAVE_RESIDUE} :
          Analysed(r) =>
              /\ Slid(wk'[r])
              /\ \A i \in wk'[r].c.mWindowSize - wk'[r].c.mStepSize + 1
                           .. wk'[r].c.mWindowSize :
                    wk'[r].mInWaveBuffer[i] = 0]_vars

\* in the code: the tail keeps the newest mStepSize samples of the frame
C26_SlideKeepsTail ==
    [][\A r \in {NRC_REDUCE_NOISE, NRC_ISOLATE_NOISE, NRC_LEAVE_RESIDUE} :
          Analysed(r) =>
              /\ Slid(wk'[r])
              /\ \A i \in wk'[r].c.mWindowSize - wk'[r].c.mStepSize + 1
                           .. wk'[r].c.mWindowSize :
                    wk'[r].mInWaveBuffer[i]
                        = wk'[r].frames[Len(wk'[r].frames)][i]]_vars

\* reached: just after the slide that follows the second frame, the last
\* entry of the buffer still holds the input sample that ended that frame
C26_Witness ==
    /\ pc = "samples"
    /\ Len(AnyWorker.frames) = 2
    /\ AnyWorker.mInWavePos = AnyWorker.c.mWindowSize - AnyWorker.c.mStepSize
    /\ AnyWorker.mInWaveBuffer[AnyWorker.c.mWindowSize] = 2 * AnyWorker.c.mStepSize
    /\ AnyWorker.mInWaveBuffer[AnyWorker.c.mWindowSize]
          = AnyWorker.frames[2][AnyWorker.c.mWindowSize]
    /\ AnyWorker.mInWaveBuffer[1] = AnyWorker.frames[2][1 + AnyWorker.c.mStepSize]

(***************************************************************************)
(* C27: for a track of n input samples, entry i of the f-th frame handed   *)
(* to analysis (f, i from 0) is the input sample at position               *)
(* (f + 1 - mStepsPerWindow) * mStepSize + i, and zero where that position *)
(* is below 0 (start-up padding) or not below n (flush).  The first frame  *)
(* is mWindowSize - mStepSize zeros followed by the first mStepSize        *)
(* samples; no entry is left over from an earlier slide.                   *)
(***************************************************************************)
C27_FrameContent ==
    pc # "constructed" =>
        \A r \in DOMAIN wk :
            LET w    == wk[r]
                W    == w.c.mWindowSize
                step == w.c.mStepSize
                n    == track.len
            IN  /\ \A f \in 0 .. Len(w.frames) - 1 : \A i \in 0 .. W - 1 :
                     LET p == (f + 1 - w.c.mStepsPerWindow) * step + i
                     IN  w.frames[f + 1][i + 1]
                            = IF p < 0 \/ p >= n THEN 0 ELSE p + 1
                /\ Len(w.frames) >= 1 =>
                     /\ \A i \in 1 .. W - step : w.frames[1][i] = 0
                     /\ \A i \in 1 .. step :
                           w.frames[1][W - step + i] = IF i <= n THEN i ELSE 0

\* reached: five samples in steps of two; the first frame is six zeros and
\* the first two samples, the fourth is the whole track and three flushed zeros
C27_Witness ==
    /\ pc = "done"
    /\ track.len = 5
    /\ AnyWorker.c.mStepSize = 2
    /\ AnyWorker.frames[1] = <<0, 0, 0, 0, 0, 0, 1, 2>>
    /\ AnyWorker.frames[4] = <<1, 2, 3, 4, 5, 0, 0, 0>>

(***************************************************************************)
(* C28: in Reduce and Residue modes, after the first step of ReduceNoise,  *)
(* the gain of the center record in a band inside [mBinLow, mBinHigh) is 1 *)
(* if the band is classified as not noise, and otherwise the value the     *)
(* record had before.  As stated, that value is mNoiseAttenFactor; in the  *)
(* code it is mNoiseAttenFactor in the first frame of a track and          *)
(* afterwards what the release step of the frame before left in the        *)
(* record, then at mQueue[mCenter - 1].                                    *)
(***************************************************************************)
\* as stated: a noise band of the center record is at mNoiseAttenFactor
C28_CenterNoiseAtFloor ==
    pc # "constructed" =>
        \A r \in DOMAIN wk \ {NRC_ISOLATE_NOISE} :
            LET w == wk[r]
                c == w.c
            IN  w.phases # << >> =>
                  \A b \in Bands(c) :
                      ~(b < c.mBinLow \/ b >= c.mBinHigh) =>
                          w.phases.center[c.mCenter + 1][b]
                             = IF w.phases.noise[b] THEN c.mNoiseAttenFactor ELSE LogOne

\* in the code: a noise band keeps what the release of the frame before left
C28_CenterNoiseKeepsReleased ==
    [][\A r \in {NRC_REDUCE_NOISE, NRC_LEAVE_RESIDUE} :
          Analysed(r) =>
              LET c  == wk'[r].c
                  ph == wk'[r].phases
              IN  \A b \in Bands(c) :
                      ~(b < c.mBinLow \/ b >= c.mBinHigh) =>
                          /\ ph.center[c.mCenter + 1][b]
                                = IF ph.noise[b] THEN ph.before[c.mCenter + 1][b]
                                  ELSE LogOne
                          /\ ph.before[c.mCenter + 1][b]
                                = IF wk[r].phases = << >> THEN c.mNoiseAttenFactor
                                  ELSE wk[r].phases.release[c.mCenter][b]
                          /\ ph.before[c.mCenter + 1][b] >= c.mNoiseAttenFactor]_vars

\* reached: a band inside the range is classified as noise while the center
\* record still holds a gain above mNoiseAttenFactor, and keeps it
C28_Witness ==
    /\ pc = "samples"
    /\ \E r \in DOMAIN wk \ {NRC_ISOLATE_NOISE} :
          LET w == wk[r]
              c == w.c
          IN  /\ w.phases # << >>
              /\ \E b \in Bands(c) :
                    /\ ~(b < c.mBinLow \/ b >= c.mBinHigh)
                    /\ w.phases.noise[b]
                    /\ w.phases.before[c.mCenter + 1][b] > c.mNoiseAttenFactor
                    /\ w.phases.before[c.mCenter + 1][b] < LogOne
                    /\ w.phases.center[c.mCenter + 1][b]
                          = w.phases.before[c.mCenter + 1][b]

(***************************************************************************)
(* C29: for every configuration Validate accepts, profiling or reducing,   *)
(* 1 <= mCenter <= mHistoryLen - 1 and mNWindowsToExamine <= mHistoryLen,  *)
(* mHistoryLen being mNWindowsToExamine when profiling and                 *)
(* max(mNWindowsToExamine, mCenter + nAttackBlocks) when reducing; so      *)
(* wxASSERT(mCenter >= 1) holds and the slots the classifier, the attack   *)
(* loop and the release step touch are slots of the ring.                  *)
(***************************************************************************)
\* the slots Classify reads, the attack loop reads and writes, the release touches
SlotsTouched(w) ==
    (0 .. w.mNWindowsToExamine - 1)
        \cup (IF w.mCenter + 1 <= w.mHistoryLen - 1 THEN w.mCenter .. w.mHistoryLen - 1 ELSE {})
        \cup {w.mCenter - 1, w.mCenter}

C29_IndicesInRing ==
    pc = "indices" =>
        /\ 1 <= wk.mCenter
        /\ wk.mCenter <= wk.mHistoryLen - 1
        /\ wk.mNWindowsToExamine <= wk.mHistoryLen
        /\ wk.mHistoryLen = IF settings.mDoProfile THEN wk.mNWindowsToExamine
                            ELSE Max(wk.mNWindowsToExamine, wk.mCenter + wk.nAttackBlocks)
        /\ SlotsTouched(wk) \subseteq 0 .. wk.mHistoryLen - 1

\* reached: a reducing configuration whose attack makes the ring longer than
\* the five windows examined
C29_Witness ==
    /\ pc = "indices"
    /\ ~settings.mDoProfile
    /\ wk.mNWindowsToExamine = 5
    /\ wk.mCenter = 2
    /\ wk.nAttackBlocks > 3
    /\ wk.mHistoryLen = wk.mCenter + wk.nAttackBlocks

(***************************************************************************)
(* C30: for every configuration Validate accepts with the Median method,   *)
(* mNWindowsToExamine is 3 or 5, so Classify takes one of its two median   *)
(* branches and never the one that asserts and answers "noise".            *)
(***************************************************************************)
C30_MedianSizes ==
    pc = "indices" /\ settings.mMethod = DM_MEDIAN =>
        /\ wk.mNWindowsToExamine \in {3, 5}
        /\ wk.branch \in {"second greatest", "third greatest"}

\* reached: Median with four steps per window examines five windows
C30_Witness ==
    /\ pc = "indices"
    /\ settings.mMethod = DM_MEDIAN
    /\ StepsPerWindow(settings) = 4
    /\ wk.mNWindowsToExamine = 5
    /\ wk.branch = "third greatest"

(***************************************************************************)
(* C31: with B = mFreqSmoothingBins, the gains applied to a resynthesized  *)
(* frame are the gains it had when B = 0; otherwise gain k is the          *)
(* geometric mean (the mean of the logarithms) of the gains it had over    *)
(* the bands max(0, k - B) .. min(mSpectrumSize - 1, k + B).  Each frame   *)
(* is smoothed once; in Isolate mode the gains are applied as they are,    *)
(* and no gain that is smoothed is 0.                                      *)
(***************************************************************************)
RECURSIVE LogSum(_, _, _)
LogSum(g, from, to) == IF from > to THEN 0 ELSE LogSum(g, from, to - 1) + g[to]

C31_FreqSmoothing ==
    pc # "constructed" =>
        \A r \in DOMAIN wk :
            LET w == wk[r]
                c == w.c
                B == c.mFreqSmoothingBins
            IN  \A a \in 1 .. Len(w.applied) :
                  /\ \A a2 \in 1 .. Len(w.applied) :
                        a2 # a /\ w.applied[a].frame >= 0
                            => w.applied[a2].frame # w.applied[a].frame
                  /\ IF B = 0 \/ c.mNoiseReductionChoice = NRC_ISOLATE_NOISE
                     THEN w.applied[a].gains = w.applied[a].pre
                     ELSE \A k \in Bands(c) :
                            LET lo == IF k - B < 0 THEN 0 ELSE k - B
                                hi == IF k + B > c.mSpectrumSize - 1
                                      THEN c.mSpectrumSize - 1 ELSE k + B
                            IN  /\ w.applied[a].pre[k] # LogZero
                                /\ (hi - lo + 1) * w.applied[a].gains[k]
                                      = LogSum(w.applied[a].pre, lo, hi)

\* reached: with B = 1 the highest band went out as the mean of two unequal
\* gains and an inner band as the mean of three
C31_Witness ==
    \E r \in DOMAIN wk \ {NRC_ISOLATE_NOISE} :
        LET w    == wk[r]
            last == w.c.mSpectrumSize - 1
        IN  /\ w.c.mFreqSmoothingBins = 1
            /\ \E a \in 1 .. Len(w.applied) :
                  LET pre == w.applied[a].pre
                      g   == w.applied[a].gains
                  IN  /\ pre[last] # pre[last - 1]
                      /\ 2 * g[last] = pre[last] + pre[last - 1]
                      /\ g[last] # pre[last]
                      /\ \E k \in 1 .. last - 1 :
                            /\ g[k] # pre[k]
                            /\ 3 * g[k] = pre[k - 1] + pre[k] + pre[k + 1]

(***************************************************************************)
(* C32: the end-of-track flush terminates.  Each call of ProcessSamples    *)
(* made by FinishTrack, fed mStepSize zeros, analyses exactly one frame    *)
(* and raises mOutStepCount by exactly 1: the iteration that starts with   *)
(* the whole block analyses a frame, a later iteration of the same call    *)
(* does not; and from every state of the flush loop the run gets to the    *)
(* end of the track with mOutStepCount * mStepSize >= mInSampleCount.      *)
(***************************************************************************)
FlushIteration(r) ==
    LET w == wk[r]
        v == wk'[r]
    IN  (pc = "samples" /\ caller = "flush" /\ wk' # wk) =>
            IF Len(pending) = w.c.mStepSize
            THEN /\ Len(v.frames) = Len(w.frames) + 1
                 /\ v.mOutStepCount = w.mOutStepCount + 1
            ELSE /\ Len(pending) < w.c.mStepSize
                 /\ v.frames = w.frames
                 /\ v.mOutStepCount = w.mOutStepCount

FlushEnded ==
    /\ pc = "done"
    /\ \A r \in DOMAIN wk :
          wk[r].mOutStepCount * wk[r].c.mStepSize >= wk[r].mInSampleCount

C32_FlushTerminates ==
    /\ [][\A r \in DOMAIN wk : FlushIteration(r)]_vars
    /\ (pc = "flush" ~> FlushEnded)

\* reached: a track of seven samples in steps of four went through its
\* flush, the last call leaving three of its zeros unused
C32_Witness ==
    /\ FlushEnded
    /\ track.len = 7
    /\ AnyWorker.c.mStepSize = 4
    /\ caller = "flush"
    /\ Len(pending) = 3
    /\ AnyWorker.mInWavePos = AnyWorker.c.mWindowSize - AnyWorker.c.mStepSize
    /\ Len(AnyWorker.frames) = 2 - InitialOutStepCount(AnyWorker.c)

(***************************************************************************)
(* C33: in reducing mode the resynthesis runs for a frame processed, that  *)
(* is mOutStepCount >= -(mStepsPerWindow - 1), exactly when the last slot  *)
(* of the ring holds a frame analysed in this track.  The records that     *)
(* StartNewTrack left and no frame filled are never resynthesized, and at  *)
(* the end of the track the frames resynthesized are, once each, the       *)
(* frames whose window starts before the end of the input.                 *)
(***************************************************************************)
C33_ResynthesisGate ==
    pc # "constructed" =>
        \A r \in DOMAIN wk :
            LET w == wk[r]
                c == w.c
                F == Len(w.frames)
                A == Len(w.applied)
            IN  /\ A = IF F >= c.mHistoryLen THEN F - (c.mHistoryLen - 1) ELSE 0
                /\ \A a \in 1 .. A :
                      /\ w.applied[a].frame >= 0
                      /\ w.applied[a].frame = a - 1
                      /\ w.applied[a].step >= 0 - (c.mStepsPerWindow - 1)
                      /\ w.applied[a].step
                            = InitialOutStepCount(c) + w.applied[a].frame + c.mHistoryLen - 1
                /\ pc = "done" =>
                      {w.applied[a].frame : a \in 1 .. A}
                         = {g \in 0 .. F - 1 :
                              (g + 1 - c.mStepsPerWindow) * c.mStepSize < track.len}

\* reached: at the end of a track some frames were analysed and not
\* resynthesized, their windows starting at or after the end of the input
C33_Witness ==
    /\ pc = "done"
    /\ track.len = 5
    /\ AnyWorker.c.mHistoryLen = 4
    /\ Len(AnyWorker.applied) = Len(AnyWorker.frames) - 3
    /\ Len(AnyWorker.applied) > AnyWorker.c.mStepsPerWindow
    /\ AnyWorker.applied[1].frame = 0

(***************************************************************************)
(* C34: the break of the attack loop loses nothing.  In Reduce and Residue *)
(* modes, after the attack and after the release of every ReduceNoise, for *)
(* every band and every slot i in mCenter + 1 .. mHistoryLen - 1,          *)
(* gain[i] >= max(mNoiseAttenFactor, gain[i - 1] * mOneBlockAttack); and   *)
(* the gains the loop leaves are those the same loop leaves when it runs   *)
(* over all the slots without the break.                                   *)
(***************************************************************************)
RECURSIVE AttackWithoutBreak(_, _, _, _)
\* gains: slot -> gain of one band, slots counted from 1; from slot i on
AttackWithoutBreak(c, gains, i, last) ==
    IF i > last THEN gains
    ELSE LET minimum == Max(c.mNoiseAttenFactor,
                            GainTimes(gains[i - 1], c.mOneBlockAttack))
         IN  AttackWithoutBreak(c,
                [gains EXCEPT ![i] = IF @ < minimum THEN minimum ELSE @],
                i + 1, last)

C34_AttackBreakSound ==
    pc # "constructed" =>
        \A r \in DOMAIN wk \ {NRC_ISOLATE_NOISE} :
            LET w == wk[r]
                c == w.c
                H == c.mHistoryLen
            IN  w.phases # << >> =>
                  \A b \in Bands(c) :
                      /\ \A i \in c.mCenter + 2 .. H :
                            /\ w.phases.attack[i][b] >=
                                  Max(c.mNoiseAttenFactor,
                                      GainTimes(w.phases.attack[i - 1][b], c.mOneBlockAttack))
                            /\ w.phases.release[i][b] >=
                                  Max(c.mNoiseAttenFactor,
                                      GainTimes(w.phases.release[i - 1][b], c.mOneBlockAttack))
                      /\ [i \in 1 .. H |-> w.phases.attack[i][b]]
                            = AttackWithoutBreak(c, [i \in 1 .. H |-> w.phases.center[i][b]],
                                                 c.mCenter + 2, H)

\* reached: the loop raised the slot after the center and stopped at the
\* next one, which an earlier frame had raised higher than the floor
C34_Witness ==
    \E r \in DOMAIN wk \ {NRC_ISOLATE_NOISE} :
        LET w == wk[r]
            c == w.c
            k == c.mCenter + 1
        IN  /\ w.phases # << >>
            /\ c.mHistoryLen >= k + 2
            /\ \E b \in Bands(c) :
                  /\ w.phases.attack[k + 1][b] > w.phases.center[k + 1][b]
                  /\ w.phases.attack[k + 2][b] = w.phases.center[k + 2][b]
                  /\ w.phases.attack[k + 2][b] > c.mNoiseAttenFactor
                  /\ w.phases.attack[k + 2][b] < LogOne

(***************************************************************************)
(* C35: no input is dropped while a track is fed.  When a ProcessSamples   *)
(* call of the track loop returns, every sample of the block has been      *)
(* copied into mInWaveBuffer; and between the calls                        *)
(* mInWavePos = mWindowSize - mStepSize + (mInSampleCount mod mStepSize),  *)
(* so mWindowSize - mStepSize <= mInWavePos < mWindowSize.                 *)
(***************************************************************************)
\* the track loop is between two ProcessSamples calls
BetweenFeeds ==
    \/ pc = "loop"
    \/ pc = "samples" /\ caller = "feed" /\ ~LoopGuard(AnyWorker, pending)

C35_NoInputDropped ==
    \A r \in DOMAIN wk :
        LET w    == wk[r]
            W    == w.c.mWindowSize
            step == w.c.mStepSize
        IN  /\ (pc = "samples" /\ caller = "feed" /\ Len(pending) > 0) =>
                  w.mOutStepCount * step < w.mInSampleCount
            /\ BetweenFeeds =>
                  /\ pc = "samples" => pending = << >>
                  /\ w.mInSampleCount = samplePos
                  /\ w.mInWavePos = W - step + (w.mInSampleCount % step)
                  /\ W - step <= w.mInWavePos
                  /\ w.mInWavePos < W
                  /\ Len(w.frames) = w.mInSampleCount \div step

\* reached: a read of three samples returned with seven samples fed in all,
\* in steps of two: three frames analysed and one sample waiting
C35_Witness ==
    /\ pc = "samples" /\ caller = "feed" /\ pending = << >>
    /\ samplePos = 7
    /\ AnyWorker.c.mStepSize = 2
    /\ AnyWorker.mInSampleCount = 7
    /\ AnyWorker.mInWavePos = AnyWorker.c.mWindowSize - 1
    /\ Len(AnyWorker.frames) = 3
    /\ AnyWorker.mInWaveBuffer[AnyWorker.c.mWindowSize - 1] = 7

(***************************************************************************)
(* C36: tracks are independent.  StartNewTrack leaves the ring (powers,    *)
(* transforms, gains), the input buffer, the overlap buffer, mInWavePos,   *)
(* mInSampleCount and mOutStepCount at the same values whatever the Worker *)
(* processed before; the gains a frame is resynthesized with were all      *)
(* written after its record was recycled; so the frames and the output of  *)
(* a track are made of that track's samples alone, and the statistics are  *)
(* not changed by reducing.                                                *)
(***************************************************************************)
\* w is as StartNewTrack leaves any Worker with its constants
FreshForTrack(w) ==
    LET c == w.c
    IN  /\ \A i \in 1 .. c.mHistoryLen :
              /\ w.mQueue[i].mSpectrums = [b \in Bands(c) |-> 0]
              /\ w.mQueue[i].mGains = [b \in Bands(c) |-> c.mNoiseAttenFactor]
              /\ w.mQueue[i].mFFT = 0 - 1
        /\ w.mInWaveBuffer = [i \in 1 .. c.mWindowSize |-> 0]
        /\ w.mOutOverlapBuffer = [i \in 1 .. c.mWindowSize |-> << >>]
        /\ w.mInWavePos = c.mWindowSize - c.mStepSize
        /\ w.mInSampleCount = 0
        /\ w.mOutStepCount = 0 - (c.mHistoryLen - 1) - (c.mStepsPerWindow - 1)
        /\ w.outputTrack = << >>

C36_TrackIndependence ==
    \A r \in DOMAIN wk :
        LET w == wk[r]
            c == w.c
        IN  /\ stats = effect.entry.stats
            /\ (pc = "loop" /\ samplePos = 0) => FreshForTrack(w)
            /\ pc \in {"loop", "samples", "flush", "done", "cancelled"} =>
                  /\ \A a \in 1 .. Len(w.applied) :
                        w.applied[a].gainsFFT = w.applied[a].frame
                  /\ \A f \in 1 .. Len(w.frames) : \A i \in 1 .. c.mWindowSize :
                        w.frames[f][i] \in 0 .. track.len
                  /\ \A p \in 1 .. Len(w.outputTrack) : \A m \in 1 .. Len(w.outputTrack[p]) :
                        /\ w.outputTrack[p][m][1] \in 0 .. Len(w.frames) - 1
                        /\ w.frames[w.outputTrack[p][m][1] + 1][w.outputTrack[p][m][2] + 1]
                              = RefSample(p - 1)
            /\ pc = "done" => w.outputTrack = RefOutput(c, track.len)

\* reached: in Isolate mode the second track of a project is done after a
\* longer first track went through the same Worker
C36_Witness ==
    /\ pc = "done"
    /\ effect.count = 2
    /\ 1 \in effect.replaced
    /\ effect.project[1].len = 9
    /\ track.len = 4
    /\ NRC_ISOLATE_NOISE \in DOMAIN wk
    /\ Len(AnyWorker.outputTrack) = 4
    /\ Len(AnyWorker.applied) >= 2
    /\ AnyWorker.applied[2].gainsFFT = 1

(***************************************************************************)
(* C37: over every sequence of dialog sessions (Get Profile, Reduce,       *)
(* Preview, Cancel, the buttons enabled as the dialog constructor decides, *)
(* the case without wave tracks included) and Process calls, whenever      *)
(* Process starts in reducing mode (mDoProfile false) with at least one    *)
(* selected wave track, a statistics object exists.                        *)
(***************************************************************************)
C37_ReduceHasStatistics ==
    (effect.runs > 0 /\ Len(effect.project) > 0 /\ ~effect.entry.mDoProfile)
        => effect.entry.hasStatistics

\* reached: a Process call that found mDoProfile false, a selected wave
\* track and no statistics has built its Worker from what it read through
\* the null pointer and is in its track loop
C37_ReducingWithoutStatistics ==
    /\ pc = "track"
    /\ effect.workerBuilt
    /\ Len(effect.project) > 0
    /\ ~effect.entry.mDoProfile
    /\ ~effect.entry.hasStatistics
    /\ ~effect.preview
    /\ effect.runs = 1

(***************************************************************************)
(* C38: a dialog session that ends with Cancel, after any number of        *)
(* Previews, leaves the Settings of the effect (all parameters and         *)
(* mDoProfile) as they were when the dialog opened.  While Preview runs    *)
(* the dialog's settings are installed with mDoProfile = false; when it    *)
(* has returned the saved settings are back.  Only a Get Profile or Reduce *)
(* outcome copies the dialog's settings, with mDoProfile true for Get      *)
(* Profile and false for Reduce.                                           *)
(***************************************************************************)
C38_CancelKeepsSettings ==
    [][ /\ pc' = "dialog" => settings' = effect'.atOpen
        /\ (pc = "dialog" /\ pc' = "idle") => settings' = effect.atOpen
        /\ effect'.preview =>
              /\ settings' = [effect'.mTempSettings EXCEPT !.mDoProfile = FALSE]
              /\ effect'.oldSettings = effect'.atOpen
        /\ (pc = "dialog" /\ pc' = "ready" /\ ~effect'.preview) =>
              /\ \E doProfile \in BOOLEAN :
                    settings' = [effect'.mTempSettings EXCEPT !.mDoProfile = doProfile]
              /\ ~settings'.mDoProfile => effect.reduceEnabled
        /\ settings' # settings =>
              \/ pc = "dialog" /\ pc' = "ready"
              \/ pc = "idle" /\ effect.preview /\ pc' = "dialog"
              \/ pc = "after" /\ settings.mDoProfile /\ ~effect.preview
    ]_vars

\* reached: Cancel after two Previews with settings other than those the
\* dialog opened with, the second Preview having processed its tracks
C38_Witness ==
    /\ pc = "idle"
    /\ ~effect.preview
    /\ effect.previews = 2
    /\ effect.result = "true"
    /\ effect.mTempSettings.mWindowTypes # effect.atOpen.mWindowTypes
    /\ settings = effect.atOpen

(***************************************************************************)
(* C39: validation of the text of an integer control, the text control     *)
(* present and the thousands separators removed.  An empty string is valid *)
(* iff the zero-as-blank flag is set and otherwise fails with "Empty       *)
(* value"; a non-empty string that cannot be parsed fails with "Malformed  *)
(* number"; a parsed value outside the range fails with "Not in range";    *)
(* validation succeeds exactly when none of these applies, and a failure   *)
(* reports exactly one of the messages, the first that applies in this     *)
(* order.                                                                  *)
(***************************************************************************)
\* the text validated: that of the control without the separators in use
Validated(c) ==
    IF c.sepUsed
    THEN [i \in 1 .. Cardinality({j \in 1 .. Len(c.text) : c.text[j] # ","}) |->
            c.text[CHOOSE j \in 1 .. Len(c.text) :
                     /\ c.text[j] # ","
                     /\ Cardinality({k \in 1 .. j : c.text[k] # ","}) = i]]
    ELSE c.text

\* s is an optional minus sign followed by digits, at least one
IsNumeral(s) ==
    \E k \in {0, 1} :
        /\ Len(s) > k
        /\ k = 1 => s[1] = "-"
        /\ \A i \in k + 1 .. Len(s) : s[i] \in {"0", "1", "7"}

\* the digit a character stands for
Numeric(ch) == IF ch = "7" THEN 7 ELSE IF ch = "1" THEN 1 ELSE 0

RECURSIVE PowerOfTen(_)
PowerOfTen(n) == IF n = 0 THEN 1 ELSE 10 * PowerOfTen(n - 1)

RECURSIVE PlaceSum(_, _)
\* the sum of the digits of s from place i on, each times its power of ten
PlaceSum(s, i) ==
    IF i > Len(s) THEN 0
    ELSE (IF s[i] = "-" THEN 0 ELSE Numeric(s[i]) * PowerOfTen(Len(s) - i))
           + PlaceSum(s, i + 1)

NumeralValue(s) == IF s[1] = "-" THEN 0 - PlaceSum(s, 1) ELSE PlaceSum(s, 1)

\* the message that applies first, "" when none does
FirstFailure(c) ==
    LET s == Validated(c)
    IN  IF s = << >> THEN (IF c.zeroAsBlank THEN "" ELSE "Empty value")
        ELSE IF ~IsNumeral(s) THEN "Malformed number"
        ELSE IF NumeralValue(s) < c.min \/ NumeralValue(s) > c.max THEN "Not in range"
        ELSE ""

C39_IntegerValidation ==
    (pc = "validated" /\ track.isTextEntry /\ effect.called) =>
        /\ effect.errMsg = FirstFailure(track)
        /\ effect.res <=> FirstFailure(track) = ""
        /\ effect.returned = effect.res
        /\ effect.shown = effect.errMsg
        /\ effect.errMsg \in {"", "Empty value", "Malformed number", "Not in range"}

\* reached: a text with a thousands separator and a value above the range
\* was refused as not in range
C39_Witness ==
    /\ pc = "validated"
    /\ effect.called
    /\ track.isTextEntry
    /\ track.sepUsed
    /\ track.text = <<"7", ",", "7">>
    /\ track.max = 15
    /\ ~effect.res
    /\ effect.shown = "Not in range"

====
